---- MODULE Spec2Model ----
(***************************************************************************)
(* Synchronization engine of the planner dashboard:                        *)
(*   - the remote API gateway, MicrosoftPlannerAPI.make_request            *)
(*     (src/app/services/microsoft_api.py), and                            *)
(*   - the reconciliation pipeline, PlannerSync                            *)
(*     (src/app/services/planner_sync.py), over the SQLAlchemy session of  *)
(*     src/app/models.py.                                                  *)
(***************************************************************************)
EXTENDS Integers, Sequences, FiniteSets, TLC

(***************************************************************************)
(* Part 1.  MicrosoftPlannerAPI.make_request                               *)
(***************************************************************************)

\* self.max_retries and self.retry_delay, set by __init__.
max_retries == 3
retry_delay == 2

\* The outcomes of one HTTP exchange (requests.get/post/patch/delete followed
\* by raise_for_status): exc is the exception class raised ("none" when the
\* exchange succeeds), status_code the status of the response (0 when the
\* exception carries no response).
HttpOk        == { [exc |-> "none", status_code |-> s] : s \in {200, 204} }
HttpErrors    == { [exc |-> "HTTPError", status_code |-> s] :
                     s \in {400, 401, 403, 404, 429, 500, 501, 502, 503, 504} }
NoResponse    == { [exc |-> e, status_code |-> 0] : e \in {"Timeout", "ConnectionError"} }
HttpOutcomes  == HttpOk \cup HttpErrors \cup NoResponse

VARIABLES
    gw_pc,        \* "idle" | "request" (inside make_request, about to send) | "returned"
    retry_count,  \* the retry_count argument of the current (recursive) call
    attempts,     \* HTTP exchanges made by the current top-level call
    waits,        \* the arguments of time.sleep, in order
    responses,    \* the outcomes of the exchanges, in order
    gw_result     \* the value returned: "payload" | "True" | "None" ("" while running)

gw_vars == <<gw_pc, retry_count, attempts, waits, responses, gw_result>>

\* The state of PlannerSync and of the database session it writes to.
VARIABLES
    now,            \* datetime.now(timezone.utc)
    session,        \* db.session: the rows as the session sees them (flushed or pending)
    committed,      \* the rows of the last db.session.commit()
    sync_stats,     \* PlannerSync.sync_stats of the running PlannerSync
    pc,             \* the statement the running entry point is at ("idle": none runs)
    entry,          \* the entry point that was called: "group" | "tasks" | "none"
    planners_data,  \* planners_data['value'] of sync_group_planners
    plan_idx,       \* the position of its for loop
    group_id,       \* the group_id argument of sync_group_planners
    planner_id,     \* the planner_id argument of sync_planner_tasks
    tasks_data,     \* tasks_data['value'] of sync_planner_tasks
    task_idx,       \* the position of its for loop
    last,           \* history: how the last task entry processed ended
    pass_raised,    \* history: ids of tasks whose reconciliation raised in this pass
    pass_ok,        \* history: ids of tasks reconciled without exception in this pass
    prev_pass,      \* history: the planner, the clock and the outcome of the pass before
    repeat,         \* history: this pass has the listing, planner and clock of the pass before
    caught,         \* history: exceptions caught by the handlers of this run
    fetched,        \* history: the listings requested by this run, in order
    plans_raised,   \* history: ids of planners whose _sync_planner raised in this run
    result,         \* the dict the entry point returned (NoResult while it runs)
    groups_data,    \* groups_data['value'] of sync_groups, the listing of this run
    no_result,      \* the requests of the run that returned None (or a body without 'value')
    active_groups,  \* Group.query.filter_by(is_active=True).all() of sync_all_data
    group_idx,      \* the position of its for loop
    lookups,        \* history: the get_user_details calls of this run, in order
    steps,          \* history: the steps of this run, in order
    runs            \* two PlannerSync objects at work at once, each with its own session

sync_vars == <<now, session, committed, sync_stats, pc, entry, planners_data, plan_idx,
               group_id, planner_id, tasks_data, task_idx, last, pass_raised, pass_ok,
               prev_pass, repeat, caught, fetched, plans_raised,
               result, active_groups, groups_data, no_result, group_idx, lookups, steps,
               runs>>

sync_vars_but_runs ==
    <<now, session, committed, sync_stats, pc, entry, planners_data, plan_idx,
      group_id, planner_id, tasks_data, task_idx, last, pass_raised, pass_ok,
      prev_pass, repeat, caught, fetched, plans_raised,
      result, active_groups, groups_data, no_result, group_idx, lookups, steps>>

\* The variables of sync_all_data and the two histories that go with them.
all_vars == <<result, active_groups, groups_data, no_result, group_idx, lookups, steps>>

vars == <<gw_pc, retry_count, attempts, waits, responses, gw_result,
          now, session, committed, sync_stats, pc, entry, planners_data, plan_idx,
          group_id, planner_id, tasks_data, task_idx, last, pass_raised, pass_ok,
          prev_pass, repeat, caught, fetched, plans_raised,
          result, active_groups, groups_data, no_result, group_idx, lookups, steps,
          runs>>

\* Lines 46-77: the classification of a RequestException (ShouldRetry), after
\* a variant of it that would also retry 500 and 501.
ShouldRetryMutant(r) ==
    \/ r.exc = "HTTPError" /\ r.status_code >= 429
    \/ r.exc = "Timeout"

ShouldRetry(r) ==
    IF r.status_code # 0
    THEN r.status_code \in {429, 502, 503, 504}
    ELSE r.exc = "Timeout"

\* Line 82: wait_time = self.retry_delay * retry_count, retry_count already
\* incremented (WaitTime), after a variant of it that would double the wait.
WaitTimeMutant(count) == retry_delay * (2 ^ (count - 1))

WaitTime(count) == retry_delay * count

\* Line 80: the retry guard.
MayRetry(r, count) == ShouldRetry(r) /\ count < max_retries

\* A caller invokes make_request(endpoint, ...) with the default retry_count=0.
MakeRequest ==
    /\ gw_pc \in {"idle", "returned"}
    /\ gw_pc' = "request"
    /\ retry_count' = 0
    /\ attempts' = 0
    /\ waits' = <<>>
    /\ responses' = <<>>
    /\ gw_result' = ""
    /\ UNCHANGED sync_vars

\* Lines 26-42: the exchange succeeds; 204 returns True, anything else the
\* decoded JSON body.
RequestSucceeds ==
    /\ gw_pc = "request"
    /\ \E r \in HttpOk :
        /\ responses' = Append(responses, r)
        /\ gw_result' = IF r.status_code = 204 THEN "True" ELSE "payload"
    /\ attempts' = attempts + 1
    /\ gw_pc' = "returned"
    /\ UNCHANGED <<retry_count, waits>>
    /\ UNCHANGED sync_vars

\* Lines 44-85: the exchange raises, the fault is transient and retries are
\* left: increment retry_count, sleep, and call make_request again.
RequestRetries ==
    /\ gw_pc = "request"
    /\ \E r \in HttpErrors \cup NoResponse :
        /\ MayRetry(r, retry_count)
        /\ responses' = Append(responses, r)
    /\ attempts' = attempts + 1
    /\ retry_count' = retry_count + 1
    /\ waits' = Append(waits, WaitTime(retry_count + 1))
    /\ UNCHANGED <<gw_pc, gw_result>>
    /\ UNCHANGED sync_vars

\* Lines 44-87: the exchange raises and is not retried: return None.
RequestGivesUp ==
    /\ gw_pc = "request"
    /\ \E r \in HttpErrors \cup NoResponse :
        /\ ~MayRetry(r, retry_count)
        /\ responses' = Append(responses, r)
    /\ attempts' = attempts + 1
    /\ gw_result' = "None"
    /\ gw_pc' = "returned"
    /\ UNCHANGED <<retry_count, waits>>
    /\ UNCHANGED sync_vars

(***************************************************************************)
(* Properties of make_request                                              *)
(***************************************************************************)

\* The fault classes of the gateway contract.
IsSuccess(r)   == r.exc = "none"
IsTransient(r) == \/ r.exc = "HTTPError" /\ r.status_code \in {429, 502, 503, 504}
                  \/ r.exc = "Timeout"
IsPermanent(r) == r.exc = "HTTPError" /\ r.status_code \notin {429, 502, 503, 504}

C2_PermanentNotRetried ==
    LET n == Len(responses) IN
    \A i \in 1..n :
        IsPermanent(responses[i])
        => /\ i = n
           /\ gw_pc = "returned"
           /\ gw_result = "None"
           /\ attempts = n
           /\ Len(waits) = n - 1
           /\ retry_count = n - 1

\* A 404 at the third attempt, after two transient failures.
C2_Witness ==
    /\ gw_pc = "returned"
    /\ Len(responses) = 3
    /\ IsTransient(responses[1])
    /\ IsTransient(responses[2])
    /\ responses[3].status_code = 404
    /\ gw_result = "None"
    /\ Len(waits) = 2


(***************************************************************************)
(* Part 2.  PlannerSync: data                                              *)
(***************************************************************************)

\* Bounds of the model.
MaxTime    == 3     \* the clock datetime.now(timezone.utc) ranges over 1..MaxTime
MaxListing == 2     \* entries of one remote task listing
MaxRuns    == 2     \* runs of sync_all_data that reach the activity log

\* A field value that Python treats as false in `if task_data.get(key)`: a
\* missing key, null or the empty string.  Timestamps and numbers use None,
\* identifiers the empty string NoId.
None == 0
NoId == ""

\* A timestamp string that datetime.fromisoformat rejects with ValueError.
Malformed == -1

Truthy(v) == v # None

\* datetime.fromisoformat(s.replace('Z', '+00:00')): the instant of a
\* well-formed string (instants are the positive integers).
ParseRaises(v) == v = Malformed

\* TaskStatus and TaskPriority of app/models.py.
TaskStatus   == {"NOT_STARTED", "IN_PROGRESS", "COMPLETED", "OVERDUE", "BLOCKED"}
TaskPriority == {"LOW", "MEDIUM", "HIGH", "URGENT"}

GroupIds  == {"g1"}
PlanIds   == {"A", "B", "C"}
BucketIds == {"b1"}
TaskIds   == {"t1", "t2"}

\* A function with one more (or one replaced) row: db.session.add / attribute
\* assignment on a loaded row.
Put(table, id, row) == (id :> row) @@ table

\* Model.query.get(id): whether the row exists in the session.
Has(table, id) == id \in DOMAIN table

EmptyTable == <<>>

\* The sequences over S of length at most n.
RECURSIVE SeqsUpTo(_, _)
SeqsUpTo(S, n) ==
    IF n = 0 THEN {<<>>}
    ELSE LET shorter == SeqsUpTo(S, n - 1) IN
         shorter \cup {Append(q, x) : q \in shorter, x \in S}

\* task_data.get('assignments', {}) of a payload without assignments.
NoAssignments == <<>>

UserIds == {"u1", "u2"}

\* task_data.get('appliedCategories') of a payload without categories, and the
\* labels of lines 292-295 and 359-362: the categories whose flag is true.
NoCategories == <<>>

LabelsOf(applied) == { category \in DOMAIN applied : applied[category] }

(***************************************************************************)
(* Part 3.  PlannerSync: reconciliation of one task                        *)
(***************************************************************************)

\* Lines 299-307 and 321-329: the remote priority 0..10 to TaskPriority.
PriorityOf(ms_priority) ==
    IF ms_priority >= 9 THEN "URGENT"
    ELSE IF ms_priority >= 7 THEN "HIGH"
    ELSE IF ms_priority >= 4 THEN "MEDIUM"
    ELSE "LOW"

\* Lines 312-318: initial_status of _create_task_from_data.
InitialStatus(task_data) ==
    IF Truthy(task_data.completedDateTime) THEN "COMPLETED"
    ELSE IF task_data.percentComplete = 100 THEN "COMPLETED"
    ELSE IF task_data.percentComplete > 0 THEN "IN_PROGRESS"
    ELSE "NOT_STARTED"

\* Lines 339-350: a malformed timestamp raises inside the Task(...) call, so
\* no Task object exists.
CreateRaises(task_data) ==
    \/ Truthy(task_data.startDateTime) /\ ParseRaises(task_data.startDateTime)
    \/ Truthy(task_data.dueDateTime) /\ ParseRaises(task_data.dueDateTime)
    \/ Truthy(task_data.completedDateTime) /\ ParseRaises(task_data.completedDateTime)

\* Lines 365-368: the overdue check of _create_task_from_data.  due_date was
\* parsed in this call, so it carries a time zone and the comparison is defined.
CreateOverdue(task, clock) ==
    IF Truthy(task.due_date) /\ task.due_date < clock /\ task.status # "COMPLETED"
    THEN [task EXCEPT !.is_overdue = TRUE, !.status = "OVERDUE"]
    ELSE task

\* Lines 309-370: _create_task_from_data, for a payload that does not raise.
\* is_overdue and is_blocked are not passed to Task(...): they take the column
\* default False of app/models.py when the row is inserted.  Lines 354-355
\* store the assignments of the payload as they are; without them the column
\* stays empty, which get_assignments reads as the empty map.
CreateTaskFromData(task_data, plan, clock) ==
    CreateOverdue(
        [ planner_id       |-> plan,
          bucket_id        |-> task_data.bucketId,
          title            |-> task_data.title,
          percent_complete |-> task_data.percentComplete,
          status           |-> InitialStatus(task_data),
          priority         |-> PriorityOf(task_data.priority),
          start_date       |-> task_data.startDateTime,
          due_date         |-> task_data.dueDateTime,
          due_tzinfo       |-> Truthy(task_data.dueDateTime),
          completed_date   |-> task_data.completedDateTime,
          is_overdue       |-> FALSE,
          is_blocked       |-> FALSE,
          assignments      |-> task_data.assignments,
          labels           |-> LabelsOf(task_data.appliedCategories) ],
        clock)

\* Lines 260-267: completedDateTime of _update_task_from_data.
UpdateCompleted(task, task_data) ==
    IF Truthy(task_data.completedDateTime)
    THEN [task EXCEPT !.completed_date = task_data.completedDateTime,
                      !.status = "COMPLETED"]
    ELSE [task EXCEPT !.completed_date = None]

\* Lines 269-275: the status is assigned again from percent_complete.
UpdateStatus(task) ==
    [task EXCEPT !.status =
        IF task.percent_complete = 100 /\ ~Truthy(task.completed_date) THEN "COMPLETED"
        ELSE IF task.percent_complete > 0 THEN "IN_PROGRESS"
        ELSE "NOT_STARTED"]

\* Line 278: task.due_date < datetime.now(timezone.utc).  A due_date loaded
\* from the database has no time zone (db.DateTime; Task.days_until_due of
\* app/models.py handles that case), and comparing it with the zoned clock
\* raises TypeError; a due_date parsed in this session is zoned.
CompareRaises(task) == Truthy(task.due_date) /\ ~task.due_tzinfo

\* Lines 277-284: the overdue check of _update_task_from_data.
UpdateOverdue(task, clock) ==
    IF Truthy(task.due_date) /\ task.due_date < clock /\ task.status # "COMPLETED"
    THEN [task EXCEPT !.is_overdue = TRUE, !.status = "OVERDUE"]
    ELSE [task EXCEPT !.is_overdue = FALSE]

\* Lines 286-287 and 354: if task_data.get('assignments'), false for a missing
\* key and for the empty dict.
HasAssignments(task_data) == DOMAIN task_data.assignments # {}

\* Lines 237-307: _update_task_from_data.  The result is the task as the
\* assignments made before the end (or before the statement that raised) leave
\* it, and whether an exception left the method.
UpdateTaskFromData(task, task_data, clock) ==
    LET s1 == [task EXCEPT !.title = task_data.title]
        s2 == IF Truthy(task_data.startDateTime)
              THEN [s1 EXCEPT !.start_date = task_data.startDateTime]
              ELSE s1
        s3 == IF Truthy(task_data.dueDateTime)
              THEN [s2 EXCEPT !.due_date = task_data.dueDateTime, !.due_tzinfo = TRUE]
              ELSE s2
        s4 == [s3 EXCEPT !.percent_complete = task_data.percentComplete]
        s5 == IF task_data.bucketId # NoId
              THEN [s4 EXCEPT !.bucket_id = task_data.bucketId]
              ELSE s4
        s6 == UpdateCompleted(s5, task_data)
        s7 == UpdateStatus(s6)
        s8 == UpdateOverdue(s7, clock)
        s8a == IF HasAssignments(task_data)
               THEN [s8 EXCEPT !.assignments = task_data.assignments]
               ELSE s8
        s8b == IF DOMAIN task_data.appliedCategories # {}
               THEN [s8a EXCEPT !.labels = LabelsOf(task_data.appliedCategories)]
               ELSE s8a
        s9 == [s8b EXCEPT !.priority = PriorityOf(task_data.priority)]
    IN  IF Truthy(task_data.startDateTime) /\ ParseRaises(task_data.startDateTime)
        THEN [raised |-> TRUE, task |-> s1]
        ELSE IF Truthy(task_data.dueDateTime) /\ ParseRaises(task_data.dueDateTime)
        THEN [raised |-> TRUE, task |-> s2]
        ELSE IF Truthy(task_data.completedDateTime)
                /\ ParseRaises(task_data.completedDateTime)
        THEN [raised |-> TRUE, task |-> s5]
        ELSE IF CompareRaises(s7)
        THEN [raised |-> TRUE, task |-> s7]
        ELSE [raised |-> FALSE, task |-> s9]

\* make_request of app/services/microsoft_api.py as a function of the
\* responses the server gives to the successive attempts, from attempt i on,
\* called with retry_count = count: whether a body was returned, the number of
\* HTTP exchanges made and the status of the last one.
RECURSIVE RequestResult(_, _, _)
RequestResult(script, i, count) ==
    IF script[i].exc = "none"
    THEN [ok |-> TRUE, attempts |-> i, status_code |-> script[i].status_code]
    ELSE IF MayRetry(script[i], count)
    THEN RequestResult(script, i + 1, count + 1)
    ELSE [ok |-> FALSE, attempts |-> i, status_code |-> script[i].status_code]

\* What the directory answers to get_user_details(user_id): the responses to
\* the successive attempts, up to the one make_request returns on, and the
\* profile a 200 carries: the user of that id, with or without mail.
LookupResponses ==
    { [exc |-> "none", status_code |-> 200],
      [exc |-> "HTTPError", status_code |-> 404],
      [exc |-> "HTTPError", status_code |-> 503] }

LookupScripts ==
    { script \in SeqsUpTo(LookupResponses, max_retries + 1) :
        /\ Len(script) >= 1
        /\ \A i \in 1..Len(script) :
              (i < Len(script)) <=> (script[i].exc # "none" /\ MayRetry(script[i], i - 1)) }

DirectoryProfiles ==
    { [id |-> "u1", displayName |-> "Ann", mail |-> "ann@x", userPrincipalName |-> "ann@x"],
      [id |-> "u1", displayName |-> "Ann", mail |-> "", userPrincipalName |-> "ann@x"],
      [id |-> "u2", displayName |-> "Bob", mail |-> "bob@x", userPrincipalName |-> "bob@x"] }

DirectoryAnswers == [script : LookupScripts, user_data : DirectoryProfiles]

\* The answers of the directory to the lookups of a set of assignees.
AnswersFor(Directory, assignees) ==
    { answers \in [assignees -> Directory] :
        \A user_id \in assignees : answers[user_id].user_data.id = user_id }

\* Line 426: the display name written for an assignee without User row.
RemovedUser == "Usuario (Removido)"

\* Lines 398-406: the User row made from the directory's answer, inactive
\* until the user logs in (UserFromData), after a variant of it that would
\* leave is_active to the default of the column (models.py line 57).
UserFromDataActive(user_data) ==
    [ display_name |-> user_data.displayName,
      email        |-> IF user_data.mail # "" THEN user_data.mail
                       ELSE user_data.userPrincipalName,
      is_active    |-> TRUE ]

UserFromData(user_data) ==
    [ display_name |-> user_data.displayName,
      email        |-> IF user_data.mail # "" THEN user_data.mail
                       ELSE user_data.userPrincipalName,
      is_active    |-> FALSE ]

\* Line 383: User.query.filter_by(azure_id=user_id).first().  The query
\* flushes the session first, so it finds the rows added earlier in the run
\* (CachedUser), after a variant of it that would only see the committed rows.
CachedUserCommitted(users, user_id) == Has(committed.users, user_id)

CachedUser(users, user_id) == Has(users, user_id)

\* The order in which assignments.items() yields the assignees.
UserOrder == <<"u1", "u2">>

\* Lines 381-428 of _enrich_task_assignees: the for loop from the i-th
\* assignee on.  acc holds the users table, the enriched map, the number of
\* users added and the lookups made so far; answers gives, per assignee, what
\* the directory would answer to get_user_details.
RECURSIVE EnrichFrom(_, _, _, _)
EnrichFrom(acc, assignments, answers, i) ==
    IF i > Len(UserOrder) THEN acc
    ELSE IF UserOrder[i] \notin DOMAIN assignments
    THEN EnrichFrom(acc, assignments, answers, i + 1)
    ELSE
      LET user_id == UserOrder[i]
          info    == assignments[user_id]
          cached  == CachedUser(acc.users, user_id)
          r       == RequestResult(answers[user_id].script, 1, 0)
          found   == cached \/ r.ok
          users   == IF ~cached /\ r.ok
                     THEN Put(acc.users, user_id, UserFromData(answers[user_id].user_data))
                     ELSE acc.users
          written == [ assignedDateTime |-> info.assignedDateTime,
                       orderHint        |-> info.orderHint,
                       userDisplayName  |-> IF found THEN users[user_id].display_name
                                            ELSE RemovedUser,
                       userEmail        |-> IF found THEN users[user_id].email ELSE "" ]
      IN  EnrichFrom(
              [ users    |-> users,
                enriched |-> Put(acc.enriched, user_id, written),
                added    |-> IF ~cached /\ r.ok THEN acc.added + 1 ELSE acc.added,
                lookups  |-> IF cached THEN acc.lookups
                             ELSE Append(acc.lookups,
                                         [ azure_id |-> user_id, attempts |-> r.attempts,
                                           status_code |-> r.status_code ]) ],
              assignments, answers, i + 1)

\* Lines 372-432: _enrich_task_assignees on the payload of a task.
EnrichTaskAssignees(users, task_data, answers) ==
    EnrichFrom([users |-> users, enriched |-> NoAssignments, added |-> 0, lookups |-> <<>>],
               task_data.assignments, answers, 1)

\* Lines 430-432: the enriched map replaces the assignments of the task when
\* it is not empty.
WithAssignments(task, enriched) ==
    IF DOMAIN enriched # {} THEN [task EXCEPT !.assignments = enriched] ELSE task

\* db.session.commit(): the session's rows become the database's, and the
\* session expires them (expire_on_commit), so the next access loads the
\* DateTime columns from the database, without a time zone.
Expire(tasks) == [id \in DOMAIN tasks |-> [tasks[id] EXCEPT !.due_tzinfo = FALSE]]

Commit(sess) == [sess EXCEPT !.tasks = Expire(sess.tasks)]


(***************************************************************************)
(* Part 4.  PlannerSync: planners, buckets, metrics                        *)
(***************************************************************************)

\* Lines 70-99 of sync_groups: the for loop over groups_data['value'] from
\* entry i on, each entry under its own handler.  A malformed createdDateTime
\* raises: an existing row keeps the name assigned at line 76, a new row was
\* never constructed, and the handler counts the error.  is_active takes the
\* column default True of app/models.py.
GroupRaises(group_data) ==
    Truthy(group_data.createdDateTime) /\ ParseRaises(group_data.createdDateTime)

RECURSIVE UpsertGroups(_, _, _, _)
UpsertGroups(acc, value, i, clock) ==
    IF i > Len(value) THEN acc
    ELSE
      LET group_data == value[i]
          id == group_data.id
          g1 == [acc.groups[id] EXCEPT !.name = group_data.displayName]
          g2 == IF Truthy(group_data.createdDateTime)
                THEN [g1 EXCEPT !.created_date = group_data.createdDateTime]
                ELSE g1
      IN  IF GroupRaises(group_data)
          THEN UpsertGroups(
                   [ groups |-> IF Has(acc.groups, id) THEN Put(acc.groups, id, g1)
                                ELSE acc.groups,
                     synced |-> acc.synced, raised |-> acc.raised + 1 ],
                   value, i + 1, clock)
          ELSE UpsertGroups(
                   [ groups |-> IF Has(acc.groups, id)
                                THEN Put(acc.groups, id, [g2 EXCEPT !.last_sync = clock])
                                ELSE Put(acc.groups, id,
                                         [ name         |-> group_data.displayName,
                                           created_date |-> group_data.createdDateTime,
                                           last_sync    |-> clock,
                                           is_active    |-> TRUE ]),
                     synced |-> acc.synced + 1, raised |-> acc.raised ],
                   value, i + 1, clock)

\* Line 34: Group.query.filter_by(is_active=True).all(), in one of the orders
\* a query without ORDER BY may give.
ActiveGroups(groups) == {id \in DOMAIN groups : groups[id].is_active}

Orderings(S) ==
    { q \in SeqsUpTo(S, Cardinality(S)) :
        /\ Len(q) = Cardinality(S)
        /\ \A i, j \in 1..Len(q) : q[i] = q[j] => i = j }

\* Lines 187-199: createdDateTime is parsed when present.
PlannerRaises(planner_data) ==
    Truthy(planner_data.createdDateTime) /\ ParseRaises(planner_data.createdDateTime)

\* Lines 181-203 of _sync_planner: the upsert of the Planner row.  When the
\* parse raises, an existing row keeps the title assigned at line 185 and a
\* new row was never constructed.
UpsertPlanner(planners, planner_data, group, clock) ==
    LET id == planner_data.id IN
    IF Has(planners, id)
    THEN LET p1 == [planners[id] EXCEPT !.title = planner_data.title]
             p2 == IF Truthy(planner_data.createdDateTime)
                   THEN [p1 EXCEPT !.created_date = planner_data.createdDateTime]
                   ELSE p1
         IN  IF PlannerRaises(planner_data)
             THEN Put(planners, id, p1)
             ELSE Put(planners, id, [p2 EXCEPT !.last_sync = clock])
    ELSE IF PlannerRaises(planner_data)
         THEN planners
         ELSE Put(planners, id,
                  [ group_id          |-> group,
                    title             |-> planner_data.title,
                    created_date      |-> planner_data.createdDateTime,
                    last_sync         |-> clock,
                    total_tasks       |-> 0,
                    completed_tasks   |-> 0,
                    in_progress_tasks |-> 0,
                    not_started_tasks |-> 0,
                    overdue_tasks     |-> 0,
                    blocked_tasks     |-> 0 ])

\* Lines 219-232 of _sync_planner_buckets: the for loop over
\* buckets_data['value'] from entry i on.  bucket_data['id'] raises KeyError
\* for an entry without id, which ends the loop; the rows of the entries
\* before it stay in the session.
RECURSIVE UpsertBuckets(_, _, _, _)
UpsertBuckets(buckets, value, i, plan) ==
    IF i > Len(value)
    THEN [raised |-> FALSE, buckets |-> buckets]
    ELSE IF value[i].id = NoId
    THEN [raised |-> TRUE, buckets |-> buckets]
    ELSE IF Has(buckets, value[i].id)
    THEN UpsertBuckets(
             Put(buckets, value[i].id,
                 [buckets[value[i].id] EXCEPT !.name = value[i].name,
                                              !.order_hint = value[i].orderHint]),
             value, i + 1, plan)
    ELSE UpsertBuckets(
             Put(buckets, value[i].id,
                 [ planner_id |-> plan,
                   name       |-> value[i].name,
                   order_hint |-> value[i].orderHint ]),
             value, i + 1, plan)

\* Lines 440-447 of _update_planner_metrics: a scan of the tasks of the plan.
OwnedTasks(tasks, plan) == {id \in DOMAIN tasks : tasks[id].planner_id = plan}

UpdatePlannerMetrics(planner, plan, tasks) ==
    LET owned == OwnedTasks(tasks, plan) IN
    [planner EXCEPT
        !.total_tasks       = Cardinality(owned),
        !.completed_tasks   = Cardinality({id \in owned : tasks[id].status = "COMPLETED"}),
        !.in_progress_tasks = Cardinality({id \in owned : tasks[id].status = "IN_PROGRESS"}),
        !.not_started_tasks = Cardinality({id \in owned : tasks[id].status = "NOT_STARTED"}),
        !.overdue_tasks     = Cardinality({id \in owned : tasks[id].is_overdue}),
        !.blocked_tasks     = Cardinality({id \in owned : tasks[id].is_blocked})]

\* Lines 168-170 of sync_planner_tasks: the metrics are recomputed when the
\* Planner row exists.
RefreshMetrics(sess, plan) ==
    IF Has(sess.planners, plan)
    THEN [sess EXCEPT !.planners =
             Put(sess.planners, plan,
                 UpdatePlannerMetrics(sess.planners[plan], plan, sess.tasks))]
    ELSE sess

(***************************************************************************)
(* Part 5.  PlannerSync: the entry points, statement by statement          *)
(***************************************************************************)

\* PlannerSync.__init__: the counters of a new run.
NewStats == [groups |-> 0, planners |-> 0, tasks |-> 0, errors |-> 0, users_enriched |-> 0]

NoLast == [idx |-> 0, path |-> "none", raised |-> FALSE, clock |-> 0]

NoPass == [planner_id |-> NoId, clock |-> 0, raised |-> FALSE]

\* The tables of a new database: groups, planners, buckets, tasks and users by
\* key, and the activity log in insertion order.
EmptyStore ==
    [ groups |-> EmptyTable, planners |-> EmptyTable, buckets |-> EmptyTable,
      tasks |-> EmptyTable, users |-> EmptyTable, activity |-> <<>> ]

\* The history of steps with one more step.
Step(kind, of) == Append(steps, [kind |-> kind, of |-> of])

\* No dict was returned yet.
NoResult == <<>>

\* The two PlannerSync objects of two requests served at once (or of a request
\* and a scheduled job), each with the session of its thread: the statement
\* the run is at, its listing and the position of its loop, the Task rows in
\* the identity map of its session as they are now (loaded) and as they were
\* read from the database (as_read; a row the run created has none), and the
\* Planner row as it is now and as it was read.
RunIds == {1, 2}

NoRow == <<>>

NewRun ==
    [ pc |-> "start", tasks_data |-> <<>>, task_idx |-> 0, loaded |-> EmptyTable,
      as_read |-> EmptyTable, planner |-> NoRow, planner_as_read |-> NoRow ]

NoRuns == [ r \in RunIds |-> [NewRun EXCEPT !.pc = "none"] ]

\* No call of make_request is active; a new database; no run of PlannerSync is
\* active.
Init ==
    /\ gw_pc = "idle"
    /\ retry_count = 0
    /\ attempts = 0
    /\ waits = <<>>
    /\ responses = <<>>
    /\ gw_result = ""
    /\ now = 1
    /\ session = EmptyStore
    /\ committed = EmptyStore
    /\ sync_stats = NewStats
    /\ pc = "idle"
    /\ entry = "none"
    /\ planners_data = <<>>
    /\ plan_idx = 0
    /\ group_id = NoId
    /\ planner_id = NoId
    /\ tasks_data = <<>>
    /\ task_idx = 0
    /\ last = NoLast
    /\ pass_raised = {}
    /\ pass_ok = {}
    /\ prev_pass = NoPass
    /\ repeat = FALSE
    /\ caught = 0
    /\ fetched = <<>>
    /\ plans_raised = {}
    /\ result = NoResult
    /\ active_groups = <<>>
    /\ groups_data = <<>>
    /\ no_result = {}
    /\ group_idx = 0
    /\ lookups = <<>>
    /\ steps = <<>>
    /\ runs = NoRuns

\* Time passes between two runs.
Tick ==
    /\ pc = "idle"
    /\ now < MaxTime
    /\ now' = now + 1
    /\ UNCHANGED <<session, committed, sync_stats, pc, entry, planners_data, plan_idx,
                   group_id, planner_id, tasks_data, task_idx, last, pass_raised,
                   pass_ok, prev_pass, repeat, caught, fetched, plans_raised>>
    /\ UNCHANGED all_vars
    /\ UNCHANGED gw_vars
    /\ UNCHANGED runs

\* A caller constructs a PlannerSync and calls sync_group_planners(group_id).
CallSyncGroupPlanners ==
    /\ pc = "idle"
    /\ \E g \in GroupIds : group_id' = g
    /\ pc' = "get_planners"
    /\ entry' = "group"
    /\ sync_stats' = NewStats
    /\ caught' = 0
    /\ fetched' = <<>>
    /\ plans_raised' = {}
    /\ planners_data' = <<>>
    /\ plan_idx' = 0
    /\ planner_id' = NoId
    /\ tasks_data' = <<>>
    /\ task_idx' = 0
    /\ last' = NoLast
    /\ pass_raised' = {}
    /\ pass_ok' = {}
    /\ prev_pass' = NoPass
    /\ repeat' = FALSE
    /\ UNCHANGED <<now, session, committed>>
    /\ result' = NoResult
    /\ lookups' = <<>>
    /\ steps' = <<>>
    /\ no_result' = {}
    /\ UNCHANGED <<active_groups, groups_data, group_idx>>
    /\ UNCHANGED gw_vars
    /\ UNCHANGED runs

\* sync_group_planners returns: to the loop of sync_all_data at line 35, which
\* drops the value and takes the next group, or to the caller (ReturnFromGroup),
\* after a variant of it in which sync_all_data would return the dict of a
\* group without planners as a failure.
ReturnFromGroupAbort(value) ==
    IF entry = "all" /\ value.planners > 0
    THEN /\ group_idx' = group_idx + 1
         /\ pc' = "group_loop"
         /\ UNCHANGED result
    ELSE /\ pc' = "idle"
         /\ result' = [success |-> FALSE, error |-> "planners"]
         /\ UNCHANGED group_idx

ReturnFromGroup(value) ==
    IF entry = "all"
    THEN /\ group_idx' = group_idx + 1
         /\ pc' = "group_loop"
         /\ UNCHANGED result
    ELSE /\ pc' = "idle"
         /\ result' = value
         /\ UNCHANGED group_idx

\* Lines 117-121: get_planners returned None: return without a commit.
GetPlannersNoResult ==
    /\ pc = "get_planners"
    /\ fetched' = Append(fetched, [kind |-> "planners", of |-> group_id])
    /\ UNCHANGED <<now, session, committed, sync_stats, entry, planners_data, plan_idx,
                   group_id, planner_id, tasks_data, task_idx, last, pass_raised,
                   pass_ok, prev_pass, repeat, caught, plans_raised>>
    /\ steps' = Step("planners", group_id)
    /\ ReturnFromGroup([success |-> TRUE, planners |-> 0])
    /\ no_result' = no_result \cup {[kind |-> "planners", of |-> group_id]}
    /\ UNCHANGED <<active_groups, groups_data, lookups>>
    /\ UNCHANGED gw_vars
    /\ UNCHANGED runs

\* Lines 117-123: get_planners returned a listing.
GetPlanners(Listings) ==
    /\ pc = "get_planners"
    /\ \E value \in Listings : planners_data' = value
    /\ fetched' = Append(fetched, [kind |-> "planners", of |-> group_id])
    /\ plan_idx' = 1
    /\ pc' = "planner_loop"
    /\ UNCHANGED <<now, session, committed, sync_stats, entry, group_id, planner_id,
                   tasks_data, task_idx, last, pass_raised, pass_ok, prev_pass, repeat,
                   caught, plans_raised>>
    /\ steps' = Step("planners", group_id)
    /\ UNCHANGED <<result, active_groups, groups_data, no_result, group_idx, lookups>>
    /\ UNCHANGED gw_vars
    /\ UNCHANGED runs

\* Lines 123-125 and 181-206: the next planner of the listing is upserted and
\* _sync_planner goes on to its buckets.
SyncPlannerUpsert ==
    /\ pc = "planner_loop"
    /\ plan_idx <= Len(planners_data)
    /\ ~PlannerRaises(planners_data[plan_idx])
    /\ session' = [session EXCEPT !.planners =
                      UpsertPlanner(session.planners, planners_data[plan_idx], group_id, now)]
    /\ planner_id' = planners_data[plan_idx].id
    /\ pc' = "get_buckets"
    /\ UNCHANGED <<now, committed, sync_stats, entry, planners_data, plan_idx, group_id,
                   tasks_data, task_idx, last, pass_raised, pass_ok, prev_pass, repeat,
                   caught, fetched, plans_raised>>
    /\ steps' = Step("upsert", planners_data[plan_idx].id)
    /\ UNCHANGED <<result, active_groups, groups_data, no_result, group_idx, lookups>>
    /\ UNCHANGED gw_vars
    /\ UNCHANGED runs

\* Lines 127-129: after the handler the for loop takes the next planner
\* (NextPlanner), after a variant of it that would leave the loop.
NextPlannerAbandon(idx, value) == Len(value) + 1

NextPlanner(idx, value) == idx + 1

\* Lines 123-129: _sync_planner raises; the handler of the loop counts the
\* error and the loop goes on with the next planner (SyncPlannerRaises), after
\* a variant of it without the handlers of lines 127, 134 and 53, in which
\* the exception leaves the run.
SyncPlannerRaisesUncaught ==
    /\ pc = "planner_loop"
    /\ plan_idx <= Len(planners_data)
    /\ PlannerRaises(planners_data[plan_idx])
    /\ session' = [session EXCEPT !.planners =
                      UpsertPlanner(session.planners, planners_data[plan_idx], group_id, now)]
    /\ pc' = "raised"
    /\ plans_raised' = plans_raised \cup {planners_data[plan_idx].id}
    /\ UNCHANGED <<now, committed, sync_stats, caught, plan_idx, entry, planners_data,
                   group_id, planner_id, tasks_data, task_idx, last, pass_raised,
                   pass_ok, prev_pass, repeat, fetched>>
    /\ steps' = Step("upsert", planners_data[plan_idx].id)
    /\ UNCHANGED <<result, active_groups, groups_data, no_result, group_idx, lookups>>
    /\ UNCHANGED gw_vars
    /\ UNCHANGED runs

SyncPlannerRaises ==
    /\ pc = "planner_loop"
    /\ plan_idx <= Len(planners_data)
    /\ PlannerRaises(planners_data[plan_idx])
    /\ session' = [session EXCEPT !.planners =
                      UpsertPlanner(session.planners, planners_data[plan_idx], group_id, now)]
    /\ sync_stats' = [sync_stats EXCEPT !.errors = @ + 1]
    /\ caught' = caught + 1
    /\ plans_raised' = plans_raised \cup {planners_data[plan_idx].id}
    /\ plan_idx' = NextPlanner(plan_idx, planners_data)
    /\ UNCHANGED <<now, committed, pc, entry, planners_data, group_id, planner_id,
                   tasks_data, task_idx, last, pass_raised, pass_ok, prev_pass, repeat,
                   fetched>>
    /\ steps' = Step("upsert", planners_data[plan_idx].id)
    /\ UNCHANGED <<result, active_groups, groups_data, no_result, group_idx, lookups>>
    /\ UNCHANGED gw_vars
    /\ UNCHANGED runs

\* Lines 131-132: the loop is over: commit and return.
FinishGroupPlanners ==
    /\ pc = "planner_loop"
    /\ plan_idx > Len(planners_data)
    /\ session' = Commit(session)
    /\ committed' = Commit(session)
    /\ UNCHANGED <<now, sync_stats, entry, planners_data, plan_idx, group_id, planner_id,
                   tasks_data, task_idx, last, pass_raised, pass_ok, prev_pass, repeat,
                   caught, fetched, plans_raised>>
    /\ steps' = Step("commit", group_id)
    /\ ReturnFromGroup([success |-> TRUE, planners |-> Len(planners_data)])
    /\ UNCHANGED <<active_groups, groups_data, no_result, lookups>>
    /\ UNCHANGED gw_vars
    /\ UNCHANGED runs

\* Lines 211-235: _sync_planner_buckets, then line 209 calls
\* sync_planner_tasks.  An exception of the loop is caught at line 234 and
\* only logged.
SyncPlannerBuckets(Listings) ==
    /\ pc = "get_buckets"
    /\ fetched' = Append(fetched, [kind |-> "buckets", of |-> planner_id])
    /\ \E buckets_data \in Listings :
        IF buckets_data.ok
        THEN LET r == UpsertBuckets(session.buckets, buckets_data.value, 1, planner_id) IN
             /\ session' = [session EXCEPT !.buckets = r.buckets]
             /\ caught' = IF r.raised THEN caught + 1 ELSE caught
             /\ UNCHANGED no_result
        ELSE /\ no_result' = no_result \cup {[kind |-> "buckets", of |-> planner_id]}
             /\ UNCHANGED <<session, caught>>
    /\ pc' = "get_tasks"
    /\ UNCHANGED <<now, committed, sync_stats, entry, planners_data, plan_idx, group_id,
                   planner_id, tasks_data, task_idx, last, pass_raised, pass_ok,
                   prev_pass, repeat, plans_raised>>
    /\ steps' = Step("buckets", planner_id)
    /\ UNCHANGED <<result, active_groups, groups_data, group_idx, lookups>>
    /\ UNCHANGED gw_vars
    /\ UNCHANGED runs

\* A caller constructs a PlannerSync and calls sync_all_data().
CallSyncAllData ==
    /\ pc = "idle"
    /\ Len(session.activity) < MaxRuns
    /\ pc' = "sync_groups"
    /\ entry' = "all"
    /\ sync_stats' = NewStats
    /\ caught' = 0
    /\ fetched' = <<>>
    /\ plans_raised' = {}
    /\ planners_data' = <<>>
    /\ plan_idx' = 0
    /\ group_id' = NoId
    /\ planner_id' = NoId
    /\ tasks_data' = <<>>
    /\ task_idx' = 0
    /\ last' = NoLast
    /\ pass_raised' = {}
    /\ pass_ok' = {}
    /\ prev_pass' = NoPass
    /\ repeat' = FALSE
    /\ result' = NoResult
    /\ active_groups' = <<>>
    /\ groups_data' = <<>>
    /\ no_result' = {}
    /\ group_idx' = 0
    /\ lookups' = <<>>
    /\ steps' = <<>>
    /\ UNCHANGED <<now, session, committed>>
    /\ UNCHANGED gw_vars
    /\ UNCHANGED runs

\* Lines 29-31 and 64-67: get_groups returned None: sync_groups returns
\* success False and sync_all_data returns that dict at once.
SyncGroupsNoResult ==
    /\ pc = "sync_groups"
    /\ fetched' = Append(fetched, [kind |-> "groups", of |-> NoId])
    /\ steps' = Step("groups", NoId)
    /\ result' = [success |-> FALSE, error |-> "Nenhum grupo encontrado"]
    /\ pc' = "idle"
    /\ no_result' = no_result \cup {[kind |-> "groups", of |-> NoId]}
    /\ UNCHANGED <<session, committed, sync_stats, entry, caught, active_groups,
                   groups_data, group_idx>>
    /\ UNCHANGED <<now, planners_data, plan_idx, group_id, planner_id, tasks_data,
                   task_idx, last, pass_raised, pass_ok, prev_pass, repeat,
                   plans_raised, lookups>>
    /\ UNCHANGED gw_vars
    /\ UNCHANGED runs

\* Lines 29-34 and 64-108: get_groups returned a listing: sync_groups upserts
\* the groups and commits, and sync_all_data queries the active groups.
SyncGroups(Listings) ==
    /\ pc = "sync_groups"
    /\ fetched' = Append(fetched, [kind |-> "groups", of |-> NoId])
    /\ steps' = Step("groups", NoId)
    /\ \E value \in Listings :
        LET r == UpsertGroups([groups |-> session.groups, synced |-> 0, raised |-> 0],
                              value, 1, now)
        IN  /\ session' = Commit([session EXCEPT !.groups = r.groups])
            /\ committed' = Commit([session EXCEPT !.groups = r.groups])
            /\ sync_stats' = [sync_stats EXCEPT !.groups = @ + r.synced,
                                                !.errors = @ + r.raised]
            /\ caught' = caught + r.raised
            /\ active_groups' \in Orderings(ActiveGroups(r.groups))
            /\ groups_data' = value
    /\ group_idx' = 1
    /\ pc' = "group_loop"
    /\ UNCHANGED <<entry, result, no_result>>
    /\ UNCHANGED <<now, planners_data, plan_idx, group_id, planner_id, tasks_data,
                   task_idx, last, pass_raised, pass_ok, prev_pass, repeat,
                   plans_raised, lookups>>
    /\ UNCHANGED gw_vars
    /\ UNCHANGED runs

\* Lines 34-35: the loop calls sync_group_planners for the next active group
\* (SyncNextGroup), after a variant of it that would pass the first group of
\* the query at every turn of the loop.
SyncFirstGroupAgain ==
    /\ pc = "group_loop"
    /\ group_idx <= Len(active_groups)
    /\ group_id' = active_groups[1]
    /\ planners_data' = <<>>
    /\ plan_idx' = 0
    /\ pc' = "get_planners"
    /\ UNCHANGED <<now, session, committed, sync_stats, entry, planner_id, tasks_data,
                   task_idx, last, pass_raised, pass_ok, prev_pass, repeat, caught,
                   fetched, plans_raised>>
    /\ UNCHANGED all_vars
    /\ UNCHANGED gw_vars
    /\ UNCHANGED runs

SyncNextGroup ==
    /\ pc = "group_loop"
    /\ group_idx <= Len(active_groups)
    /\ group_id' = active_groups[group_idx]
    /\ planners_data' = <<>>
    /\ plan_idx' = 0
    /\ pc' = "get_planners"
    /\ UNCHANGED <<now, session, committed, sync_stats, entry, planner_id, tasks_data,
                   task_idx, last, pass_raised, pass_ok, prev_pass, repeat, caught,
                   fetched, plans_raised>>
    /\ UNCHANGED all_vars
    /\ UNCHANGED gw_vars
    /\ UNCHANGED runs

\* Lines 37-52: the loop is over: one ActivityLog row with the counters in
\* its description, commit, and the dict of the success path
\* (RecordRunActivity), after a variant of it that would sit inside the loop
\* and run as soon as one group is done.
RecordRunActivityEarly ==
    /\ pc = "group_loop"
    /\ group_idx > 1
    /\ LET activity == [activity_type |-> "auto_sync", stats |-> sync_stats] IN
        /\ session' = Commit([session EXCEPT !.activity = Append(@, activity)])
        /\ committed' = Commit([session EXCEPT !.activity = Append(@, activity)])
    /\ steps' = Step("activity", NoId)
    /\ result' = [success |-> TRUE, stats |-> sync_stats,
                  message |-> "Sincronizacao completada com sucesso"]
    /\ pc' = "idle"
    /\ UNCHANGED <<sync_stats, entry, caught, fetched, active_groups, groups_data, no_result, group_idx>>
    /\ UNCHANGED <<now, planners_data, plan_idx, group_id, planner_id, tasks_data,
                   task_idx, last, pass_raised, pass_ok, prev_pass, repeat,
                   plans_raised, lookups>>
    /\ UNCHANGED gw_vars
    /\ UNCHANGED runs

RecordRunActivity ==
    /\ pc = "group_loop"
    /\ group_idx > Len(active_groups)
    /\ LET activity == [activity_type |-> "auto_sync", stats |-> sync_stats] IN
        /\ session' = Commit([session EXCEPT !.activity = Append(@, activity)])
        /\ committed' = Commit([session EXCEPT !.activity = Append(@, activity)])
    /\ steps' = Step("activity", NoId)
    /\ result' = [success |-> TRUE, stats |-> sync_stats,
                  message |-> "Sincronizacao completada com sucesso"]
    /\ pc' = "idle"
    /\ UNCHANGED <<sync_stats, entry, caught, fetched, active_groups, groups_data, no_result, group_idx>>
    /\ UNCHANGED <<now, planners_data, plan_idx, group_id, planner_id, tasks_data,
                   task_idx, last, pass_raised, pass_ok, prev_pass, repeat,
                   plans_raised, lookups>>
    /\ UNCHANGED gw_vars
    /\ UNCHANGED runs

\* A caller constructs a PlannerSync and calls sync_planner_tasks(planner_id).
CallSyncPlannerTasks(Plans) ==
    /\ pc = "idle"
    /\ \E p \in Plans : planner_id' = p
    /\ pc' = "get_tasks"
    /\ entry' = "tasks"
    /\ sync_stats' = NewStats
    /\ caught' = 0
    /\ fetched' = <<>>
    /\ plans_raised' = {}
    /\ UNCHANGED <<now, session, committed, planners_data, plan_idx, group_id,
                   tasks_data, task_idx, last, pass_raised, pass_ok, prev_pass, repeat>>
    /\ result' = NoResult
    /\ lookups' = <<>>
    /\ steps' = <<>>
    /\ no_result' = {}
    /\ UNCHANGED <<active_groups, groups_data, group_idx>>
    /\ UNCHANGED gw_vars
    /\ UNCHANGED runs

\* sync_planner_tasks returns: to line 126 of sync_group_planners, which
\* counts the planner and takes the next one, or to the caller.
ReturnFromTasks(value) ==
    IF entry \in {"group", "all"}
    THEN /\ sync_stats' = [sync_stats EXCEPT !.planners = @ + 1]
         /\ plan_idx' = plan_idx + 1
         /\ pc' = "planner_loop"
         /\ UNCHANGED result
    ELSE /\ pc' = "idle"
         /\ result' = value
         /\ UNCHANGED <<sync_stats, plan_idx>>

\* Lines 143-146: get_planner_tasks returned None: return at once, without
\* metrics and without a commit (GetPlannerTasksNoResult), after a variant of
\* it in which the missing listing would be counted as an error of the run.
GetPlannerTasksNoResultCounted ==
    /\ pc = "get_tasks"
    /\ fetched' = Append(fetched, [kind |-> "tasks", of |-> planner_id])
    /\ tasks_data' = <<>>
    /\ task_idx' = 0
    /\ prev_pass' = NoPass
    /\ repeat' = FALSE
    /\ last' = NoLast
    /\ pass_raised' = {}
    /\ pass_ok' = {}
    /\ IF entry \in {"group", "all"}
       THEN /\ sync_stats' = [sync_stats EXCEPT !.planners = @ + 1, !.errors = @ + 1]
            /\ plan_idx' = plan_idx + 1
            /\ pc' = "planner_loop"
            /\ UNCHANGED result
       ELSE /\ pc' = "idle"
            /\ result' = [success |-> FALSE, error |-> "tasks"]
            /\ UNCHANGED <<sync_stats, plan_idx>>
    /\ UNCHANGED <<now, session, committed, entry, planners_data, group_id, planner_id,
                   caught, plans_raised>>
    /\ steps' = Step("tasks", planner_id)
    /\ no_result' = no_result \cup {[kind |-> "tasks", of |-> planner_id]}
    /\ UNCHANGED <<active_groups, groups_data, group_idx, lookups>>
    /\ UNCHANGED gw_vars
    /\ UNCHANGED runs

GetPlannerTasksNoResult ==
    /\ pc = "get_tasks"
    /\ fetched' = Append(fetched, [kind |-> "tasks", of |-> planner_id])
    /\ tasks_data' = <<>>
    /\ task_idx' = 0
    /\ prev_pass' = NoPass
    /\ repeat' = FALSE
    /\ last' = NoLast
    /\ pass_raised' = {}
    /\ pass_ok' = {}
    /\ ReturnFromTasks([success |-> TRUE, tasks |-> 0])
    /\ UNCHANGED <<now, session, committed, entry, planners_data, group_id, planner_id,
                   caught, plans_raised>>
    /\ steps' = Step("tasks", planner_id)
    /\ no_result' = no_result \cup {[kind |-> "tasks", of |-> planner_id]}
    /\ UNCHANGED <<active_groups, groups_data, group_idx, lookups>>
    /\ UNCHANGED gw_vars
    /\ UNCHANGED runs

\* Lines 143-148: get_planner_tasks returned a listing.
GetPlannerTasks(Listings) ==
    /\ pc = "get_tasks"
    /\ fetched' = Append(fetched, [kind |-> "tasks", of |-> planner_id])
    /\ \E value \in Listings :
        /\ tasks_data' = value
        /\ repeat' = /\ value = tasks_data
                     /\ prev_pass = [planner_id |-> planner_id, clock |-> now,
                                     raised |-> FALSE]
    /\ task_idx' = 1
    /\ last' = NoLast
    /\ pass_raised' = {}
    /\ pass_ok' = {}
    /\ pc' = "task_loop"
    /\ UNCHANGED <<now, session, committed, sync_stats, entry, planners_data, plan_idx,
                   group_id, planner_id, prev_pass, caught, plans_raised>>
    /\ steps' = Step("tasks", planner_id)
    /\ UNCHANGED <<result, active_groups, groups_data, no_result, group_idx, lookups>>
    /\ UNCHANGED gw_vars
    /\ UNCHANGED runs

\* Lines 148-165, Task.query.get found no row: _create_task_from_data and
\* db.session.add; an exception is counted by the handler of the loop.
SyncTaskCreate(Directory) ==
    /\ pc = "task_loop"
    /\ task_idx <= Len(tasks_data)
    /\ ~Has(session.tasks, tasks_data[task_idx].id)
    /\ LET task_data == tasks_data[task_idx] IN
        /\ IF CreateRaises(task_data)
           THEN /\ sync_stats' = [sync_stats EXCEPT !.errors = @ + 1]
                /\ caught' = caught + 1
                /\ pass_raised' = pass_raised \cup {task_data.id}
                /\ UNCHANGED <<session, pass_ok>>
                /\ UNCHANGED lookups
           ELSE \E answers \in AnswersFor(Directory, DOMAIN task_data.assignments) :
                LET e == EnrichTaskAssignees(session.users, task_data, answers) IN
                /\ session' = [session EXCEPT
                        !.tasks = Put(session.tasks, task_data.id,
                                      WithAssignments(
                                          CreateTaskFromData(task_data, planner_id, now),
                                          e.enriched)),
                        !.users = e.users]
                /\ sync_stats' = [sync_stats EXCEPT !.tasks = @ + 1,
                                                    !.users_enriched = @ + e.added]
                /\ lookups' = lookups \o e.lookups
                /\ pass_ok' = pass_ok \cup {task_data.id}
                /\ UNCHANGED <<caught, pass_raised>>
        /\ last' = [idx |-> task_idx, path |-> "create",
                    raised |-> CreateRaises(task_data), clock |-> now]
    /\ task_idx' = task_idx + 1
    /\ UNCHANGED <<now, committed, pc, entry, planners_data, plan_idx, group_id,
                   planner_id, tasks_data, prev_pass, repeat, fetched, plans_raised>>
    /\ steps' = Step("task", tasks_data[task_idx].id)
    /\ UNCHANGED <<result, active_groups, groups_data, no_result, group_idx>>
    /\ UNCHANGED gw_vars
    /\ UNCHANGED runs

\* Lines 148-165, Task.query.get found the row: _update_task_from_data
\* assigns to it; an exception is counted by the handler of the loop and the
\* assignments made before it stay in the session.
SyncTaskUpdate(Directory) ==
    /\ pc = "task_loop"
    /\ task_idx <= Len(tasks_data)
    /\ Has(session.tasks, tasks_data[task_idx].id)
    /\ LET task_data == tasks_data[task_idx]
           r == UpdateTaskFromData(session.tasks[task_data.id], task_data, now)
       IN
        /\ IF r.raised
           THEN /\ session' = [session EXCEPT
                        !.tasks = Put(session.tasks, task_data.id, r.task)]
                /\ sync_stats' = [sync_stats EXCEPT !.errors = @ + 1]
                /\ caught' = caught + 1
                /\ pass_raised' = pass_raised \cup {task_data.id}
                /\ UNCHANGED <<pass_ok, lookups>>
           ELSE \E answers \in AnswersFor(Directory, DOMAIN task_data.assignments) :
                LET e == EnrichTaskAssignees(session.users, task_data, answers) IN
                /\ session' = [session EXCEPT
                        !.tasks = Put(session.tasks, task_data.id,
                                      WithAssignments(r.task, e.enriched)),
                        !.users = e.users]
                /\ sync_stats' = [sync_stats EXCEPT !.tasks = @ + 1,
                                                    !.users_enriched = @ + e.added]
                /\ lookups' = lookups \o e.lookups
                /\ pass_ok' = pass_ok \cup {task_data.id}
                /\ UNCHANGED <<caught, pass_raised>>
        /\ last' = [idx |-> task_idx, path |-> "update", raised |-> r.raised,
                    clock |-> now]
    /\ task_idx' = task_idx + 1
    /\ UNCHANGED <<now, committed, pc, entry, planners_data, plan_idx, group_id,
                   planner_id, tasks_data, prev_pass, repeat, fetched, plans_raised>>
    /\ steps' = Step("task", tasks_data[task_idx].id)
    /\ UNCHANGED <<result, active_groups, groups_data, no_result, group_idx>>
    /\ UNCHANGED gw_vars
    /\ UNCHANGED runs

\* Lines 167-173: the listing is exhausted: metrics, commit, return.
FinishPlannerTasks ==
    /\ pc = "task_loop"
    /\ task_idx > Len(tasks_data)
    /\ session' = Commit(RefreshMetrics(session, planner_id))
    /\ committed' = Commit(RefreshMetrics(session, planner_id))
    /\ prev_pass' = [planner_id |-> planner_id, clock |-> now,
                     raised |-> pass_raised # {}]
    /\ ReturnFromTasks([success |-> TRUE, tasks |-> Len(tasks_data)])
    /\ UNCHANGED <<now, entry, planners_data, group_id, planner_id, tasks_data, task_idx,
                   last, pass_raised, pass_ok, repeat, caught, fetched, plans_raised>>
    /\ steps' = IF Has(session.planners, planner_id)
                THEN Step("metrics", planner_id)
                ELSE steps
    /\ UNCHANGED <<active_groups, groups_data, no_result, group_idx, lookups>>
    /\ UNCHANGED gw_vars
    /\ UNCHANGED runs

\* POST /tasks/<task_id>/status of app/routes/api.py, between two runs of the
\* sync: the status of a stored task is assigned from the request, the
\* completion date follows it, is_overdue and is_blocked are left alone, and
\* the row is committed.
SetStatus(task, new_status, clock) ==
    IF new_status = "COMPLETED" /\ ~Truthy(task.completed_date)
    THEN [task EXCEPT !.status = new_status, !.completed_date = clock,
                      !.percent_complete = 100]
    ELSE IF new_status # "COMPLETED"
    THEN [task EXCEPT !.status = new_status, !.completed_date = None]
    ELSE [task EXCEPT !.status = new_status]

update_task_status(Statuses) ==
    /\ pc = "idle"
    /\ \E task_id \in TaskIds, new_status \in Statuses :
        /\ Has(committed.tasks, task_id)
        /\ Has(session.tasks, task_id)
        /\ committed.tasks[task_id].status # new_status
        /\ session' = Commit([session EXCEPT !.tasks =
               Put(session.tasks, task_id,
                   SetStatus(session.tasks[task_id], new_status, now))])
        /\ committed' = Commit([committed EXCEPT !.tasks =
               Put(committed.tasks, task_id,
                   SetStatus(committed.tasks[task_id], new_status, now))])
    /\ UNCHANGED <<now, sync_stats, pc, entry, planners_data, plan_idx, group_id,
                   planner_id, tasks_data, task_idx, last, pass_raised, pass_ok,
                   prev_pass, repeat, caught, fetched, plans_raised>>
    /\ UNCHANGED all_vars
    /\ UNCHANGED gw_vars
    /\ UNCHANGED runs

(***************************************************************************)
(* Properties of the status derivation                                     *)
(***************************************************************************)

\* The task entry the loop of sync_planner_tasks processed last, and whether
\* every timestamp of it is well formed.
Reconciled    == last.idx >= 1
LastData      == tasks_data[last.idx]
WellFormed(d) == Malformed \notin {d.startDateTime, d.dueDateTime, d.completedDateTime}

\* Steps 1-4 of the derivation rule, on the payload.
StatusBySteps(d) ==
    IF d.completedDateTime # None THEN "COMPLETED"
    ELSE IF d.percentComplete = 100 THEN "COMPLETED"
    ELSE IF d.percentComplete > 0 THEN "IN_PROGRESS"
    ELSE "NOT_STARTED"

\* C3: a payload that carries a completion timestamp leaves the task
\* COMPLETED with its completed date set, whatever the percentage, on the
\* create and on the update path.
C3_CompletionTimestampWins ==
    (Reconciled /\ WellFormed(LastData) /\ LastData.completedDateTime # None)
    => /\ Has(session.tasks, LastData.id)
       /\ session.tasks[LastData.id].status = "COMPLETED"
       /\ session.tasks[LastData.id].completed_date = LastData.completedDateTime

\* C4: for a payload without completion timestamp, a due timestamp in the
\* past gives COMPLETED and is_overdue = false at 100 percent, OVERDUE and
\* is_overdue = true below 100 percent; an absent due timestamp, or one not in
\* the past, gives the status of steps 1-4 and is_overdue = false.
C4_OverdueOverride ==
    (Reconciled /\ WellFormed(LastData) /\ LastData.completedDateTime = None)
    => /\ Has(session.tasks, LastData.id)
       /\ LET task == session.tasks[LastData.id] IN
          IF LastData.dueDateTime # None /\ LastData.dueDateTime < last.clock
          THEN IF LastData.percentComplete = 100
               THEN task.status = "COMPLETED" /\ ~task.is_overdue
               ELSE task.status = "OVERDUE" /\ task.is_overdue
          ELSE task.status = StatusBySteps(LastData) /\ ~task.is_overdue

\* C5: the status and the overdue flag after reconciling a payload at a given
\* time do not depend on the prior local state of the task: they are the ones
\* a store without the task ends with.
C5_StatusIndependentOfPrior ==
    (Reconciled /\ WellFormed(LastData))
    => /\ Has(session.tasks, LastData.id)
       /\ LET task  == session.tasks[LastData.id]
              fresh == CreateTaskFromData(LastData, task.planner_id, last.clock)
          IN  /\ task.status = fresh.status
              /\ task.is_overdue = fresh.is_overdue

\* C7: every task the sync committed has is_overdue true exactly when its status
\* is OVERDUE, and only with a due date in the past and a status other than
\* COMPLETED.
C7_OverdueConsistent ==
    \A id \in DOMAIN committed.tasks :
        LET task == committed.tasks[id] IN
        /\ task.is_overdue <=> task.status = "OVERDUE"
        /\ task.is_overdue
           => /\ task.due_date # None
              /\ task.due_date < now
              /\ task.status # "COMPLETED"

(***************************************************************************)
(* Properties of the passes and of the runs                                *)
(***************************************************************************)

\* The loop of sync_planner_tasks is over and lines 167-172 are next.
PassEnds == pc = "task_loop" /\ task_idx > Len(tasks_data)

\* The fields of a task row that are derived from the payload.
Derived(task) ==
    [ status |-> task.status, is_overdue |-> task.is_overdue,
      completed_date |-> task.completed_date, due_date |-> task.due_date,
      priority |-> task.priority, bucket_id |-> task.bucket_id ]

\* C6: a pass of sync_planner_tasks that follows a pass on the same plan with
\* the same listing at the same time commits, for every task of the listing,
\* a row whose derived fields equal the ones the first pass committed.
C6_SecondPassChangesNothing ==
    [][ (repeat /\ PassEnds)
        => \A i \in 1..Len(tasks_data) :
              LET id == tasks_data[i].id IN
              /\ Has(committed.tasks, id)
              /\ Has(committed'.tasks, id)
              /\ Derived(committed'.tasks[id]) = Derived(committed.tasks[id]) ]_vars

\* The rows of a store that do not belong to a plan: the other planners, and
\* the buckets and tasks of the other planners.
RowsOfOthers(sess, plan) ==
    [ planners |-> [id \in DOMAIN sess.planners \ {plan} |-> sess.planners[id]],
      buckets  |-> [id \in {b \in DOMAIN sess.buckets : sess.buckets[b].planner_id # plan}
                       |-> sess.buckets[id]],
      tasks    |-> [id \in {t \in DOMAIN sess.tasks : sess.tasks[t].planner_id # plan}
                       |-> sess.tasks[id]] ]

\* The loop of sync_group_planners is over.
GroupRunEnds == entry = "group" /\ pc = "planner_loop" /\ plan_idx > Len(planners_data)

WasFetched(kind, of) ==
    \E i \in 1..Len(fetched) : fetched[i] = [kind |-> kind, of |-> of]

\* C8: when reconciling a plan of the listing raises, the rows of the other
\* plans, in the session and in the database, stay as they were and the error
\* counter grows; and at the end of the loop every plan of the listing that
\* did not raise had its buckets and its tasks fetched.
C8_SiblingPlansIsolated ==
    /\ [][ ( /\ pc = "planner_loop"
             /\ plan_idx <= Len(planners_data)
             /\ PlannerRaises(planners_data[plan_idx]) )
           => /\ RowsOfOthers(session', planners_data[plan_idx].id)
                    = RowsOfOthers(session, planners_data[plan_idx].id)
              /\ committed' = committed
              /\ sync_stats'.errors >= sync_stats.errors + 1 ]_vars
    /\ [](GroupRunEnds
          => /\ sync_stats.errors >= Cardinality(plans_raised)
             /\ \A i \in 1..Len(planners_data) :
                   \/ planners_data[i].id \in plans_raised
                   \/ /\ WasFetched("buckets", planners_data[i].id)
                      /\ WasFetched("tasks", planners_data[i].id))

\* A run on the listing [A, B, C] is over: B raised, A's task is in the
\* database and C's buckets and tasks were fetched.
C8_Witness ==
    /\ pc = "idle"
    /\ entry = "group"
    /\ Len(planners_data) = 3
    /\ planners_data[1].id = "A" /\ planners_data[2].id = "B" /\ planners_data[3].id = "C"
    /\ plans_raised = {"B"}
    /\ Has(committed.planners, "A")
    /\ Has(committed.tasks, "t1") /\ committed.tasks["t1"].planner_id = "A"
    /\ Has(committed.buckets, "b1") /\ committed.buckets["b1"].planner_id = "A"
    /\ WasFetched("buckets", "C") /\ WasFetched("tasks", "C")
    /\ Has(committed.planners, "C")
    /\ sync_stats.errors >= 1

\* C9: every exception a run caught was counted: the error counter is at least
\* the number of exceptions the handlers of the run caught.
C9_EveryCaughtExceptionCounted == sync_stats.errors >= caught

\* C10: the commit that ends a pass leaves a task whose reconciliation raised
\* in the pass as it was in the database before the pass, absent or with the
\* same row, and stores the tasks that were reconciled without exception.
C10_RaisedTaskNotPersisted ==
    [][ PassEnds
        => /\ \A id \in pass_raised \ pass_ok :
                IF Has(committed.tasks, id)
                THEN /\ Has(committed'.tasks, id)
                     /\ committed'.tasks[id] = committed.tasks[id]
                ELSE ~Has(committed'.tasks, id)
           /\ \A id \in pass_ok : Has(committed'.tasks, id) ]_vars

(***************************************************************************)
(* Properties of sync_all_data                                             *)
(***************************************************************************)

\* sync_all_data has returned.
Returned == entry = "all" /\ pc = "idle" /\ DOMAIN result # {}

\* The loop of sync_all_data over the active groups is over.
GroupLoopEnds == entry = "all" /\ pc = "group_loop" /\ group_idx > Len(active_groups)

\* The only request of the run was the group listing.
OnlyGroupsFetched == fetched = <<[kind |-> "groups", of |-> NoId]>> /\ lookups = <<>>

\* C11: sync_all_data returns success = false, with an error message, exactly
\* when the group listing gave no result, and then the group listing was the
\* only request of the run; otherwise no failed call ends the run: when the
\* loop over the plans of a group ends every plan of the listing raised or had
\* its buckets and tasks requested, and when the loop over the groups ends the
\* plan listing of every active group was requested.
C11_OnlyGroupListingAborts ==
    /\ Returned /\ ~result.success
          => "error" \in DOMAIN result /\ OnlyGroupsFetched
    /\ Returned /\ result.success => Len(fetched) > 1 \/ active_groups = <<>>
    /\ (entry = "all" /\ pc = "planner_loop" /\ plan_idx > Len(planners_data))
          => \A i \in 1..Len(planners_data) :
                \/ planners_data[i].id \in plans_raised
                \/ /\ WasFetched("buckets", planners_data[i].id)
                   /\ WasFetched("tasks", planners_data[i].id)
    /\ (GroupLoopEnds \/ (Returned /\ result.success))
          => \A i \in 1..Len(active_groups) : WasFetched("planners", active_groups[i])

\* A run aborted at the group listing, after a run that went to its end
\* although plan B raised, the plan listing of a group gave no result and the
\* directory did not know the assignee.
C11_Witness ==
    /\ Returned
    /\ ~result.success
    /\ OnlyGroupsFetched
    /\ Len(committed.activity) = 1
    /\ committed.activity[1].stats.errors = 1
    /\ committed.activity[1].stats.planners = 1
    /\ Has(committed.tasks, "t1")
    /\ committed.tasks["t1"].assignments["u1"].userDisplayName = RemovedUser

\* C12: every value sync_all_data returns holds a boolean success and the
\* stats of the run, and holds an error only when success is false.
C12_ResultShape ==
    Returned =>
        /\ "success" \in DOMAIN result
        /\ result.success \in BOOLEAN
        /\ "stats" \in DOMAIN result
        /\ ("error" \in DOMAIN result => ~result.success)

\* The steps of the run so far that wrote an activity log entry.
ActivitySteps == { i \in 1..Len(steps) : steps[i].kind = "activity" }

PlanLoopEnds ==
    entry \in {"group", "all"} /\ pc = "planner_loop" /\ plan_idx > Len(planners_data)

\* The steps at which _update_planner_metrics ran for a plan.
MetricsSteps(plan) ==
    { k \in 1..Len(steps) : steps[k] = [kind |-> "metrics", of |-> plan] }

\* The task entries reconciled after step m and before the next plan started.
TaskStepsAfter(m) ==
    { k \in (m + 1)..Len(steps) :
        /\ steps[k].kind = "task"
        /\ \A j \in (m + 1)..k : steps[j].kind # "upsert" }

\* C18: when the loop over the plans of a group ends, the metrics of every plan
\* of the listing that was reconciled were recomputed exactly once, whatever
\* its bucket and task fetches gave, after its task listing was fetched and
\* with no task entry of the plan reconciled after it.
C18_MetricsOncePerPlan ==
    PlanLoopEnds =>
        \A i \in 1..Len(planners_data) :
            LET plan == planners_data[i].id IN
            plan \notin plans_raised =>
                /\ Cardinality(MetricsSteps(plan)) = 1
                /\ \A m \in MetricsSteps(plan) :
                      /\ \E k \in 1..(m - 1) : steps[k] = [kind |-> "tasks", of |-> plan]
                      /\ TaskStepsAfter(m) = {}

\* The steps of one kind, and the last step of one kind before step k.
StepsOf(kind) == { k \in 1..Len(steps) : steps[k].kind = kind }

LastBefore(kind, k) ==
    LET before == { j \in StepsOf(kind) : j < k } IN
    IF before = {} THEN 0 ELSE CHOOSE j \in before : \A i \in before : i <= j

\* The kinds of step that may directly follow a step of each kind in the
\* pass Start -> SyncGroups -> per group SyncPlans -> per plan (upsert,
\* SyncBuckets, SyncTasks, RecomputeMetrics) -> RecordRunActivity -> Done.
FollowersOf(kind) ==
    CASE kind = "groups"   -> {"planners", "activity"}
      [] kind = "planners" -> {"upsert", "commit", "planners", "activity"}
      [] kind = "upsert"   -> {"buckets", "upsert", "commit"}
      [] kind = "buckets"  -> {"tasks"}
      [] kind = "tasks"    -> {"task", "metrics", "upsert", "commit"}
      [] kind = "task"     -> {"task", "metrics"}
      [] kind = "metrics"  -> {"upsert", "commit"}
      [] kind = "commit"   -> {"planners", "activity"}
      [] kind = "activity" -> {}

\* C19: the steps of a run of sync_all_data form one linear pass: the group
\* listing comes first and once, the groups are taken in the order of the
\* query, each once; each plan is upserted once, its buckets are listed once,
\* right after its upsert, its tasks are listed once, right after its bucket
\* sync, task entries are reconciled only after the task listing of their plan
\* and before its metrics, the metrics of a plan follow its own task listing,
\* and the activity entry is the last step, written once.
C19_LinearPass ==
    entry = "all" =>
        /\ \A k \in 1..Len(steps) : (steps[k].kind = "groups") = (k = 1)
        /\ \A k \in 1..(Len(steps) - 1) :
              steps[k + 1].kind \in FollowersOf(steps[k].kind)
        /\ \A j, k \in 1..Len(steps) :
              (j # k /\ steps[j] = steps[k]) => steps[k].kind = "task"
        /\ \A k \in StepsOf("planners") :
              /\ Cardinality({ j \in StepsOf("planners") : j <= k }) <= Len(active_groups)
              /\ steps[k].of =
                    active_groups[Cardinality({ j \in StepsOf("planners") : j <= k })]
        /\ \A k \in StepsOf("commit") :
              /\ LastBefore("planners", k) > 0
              /\ steps[k].of = steps[LastBefore("planners", k)].of
        /\ \A k \in StepsOf("buckets") : steps[k].of = steps[k - 1].of
        /\ \A k \in StepsOf("tasks") : steps[k].of = steps[k - 1].of
        /\ \A k \in StepsOf("task") :
              /\ LastBefore("buckets", k) > 0
              /\ LastBefore("buckets", k) < LastBefore("tasks", k)
              /\ LastBefore("upsert", k) < LastBefore("buckets", k)
        /\ \A k \in StepsOf("metrics") :
              /\ LastBefore("tasks", k) > 0
              /\ steps[k].of = steps[LastBefore("tasks", k)].of
              /\ LastBefore("upsert", k) < LastBefore("tasks", k)
        /\ StepsOf("activity") \subseteq {Len(steps)}
        /\ (StepsOf("activity") # {}) = (Returned /\ result.success)

\* A run returned after two groups: in the first, plan A went through its
\* upsert, its buckets, its task listing, a task entry and its metrics, and
\* plan B raised; in the second, plan C went through its steps.
C19_Witness ==
    /\ Returned
    /\ result.success
    /\ active_groups = <<"g1", "g2">>
    /\ steps = << [kind |-> "groups", of |-> NoId],
                  [kind |-> "planners", of |-> "g1"],
                  [kind |-> "upsert", of |-> "A"],
                  [kind |-> "buckets", of |-> "A"],
                  [kind |-> "tasks", of |-> "A"],
                  [kind |-> "task", of |-> "t1"],
                  [kind |-> "metrics", of |-> "A"],
                  [kind |-> "upsert", of |-> "B"],
                  [kind |-> "commit", of |-> "g1"],
                  [kind |-> "planners", of |-> "g2"],
                  [kind |-> "upsert", of |-> "C"],
                  [kind |-> "buckets", of |-> "C"],
                  [kind |-> "tasks", of |-> "C"],
                  [kind |-> "metrics", of |-> "C"],
                  [kind |-> "commit", of |-> "g2"],
                  [kind |-> "activity", of |-> NoId] >>

\* C20: every task row of the database references a plan row of the
\* database and, when it has a bucket, a bucket row of the database.
C20_TaskReferencesExist ==
    \A t \in TaskIds :
        Has(committed.tasks, t) =>
            /\ Has(committed.planners, committed.tasks[t].planner_id)
            /\ committed.tasks[t].bucket_id # NoId
                  => Has(committed.buckets, committed.tasks[t].bucket_id)

\* The groups whose plans were listed so far in the run, in that order.
RECURSIVE GroupsSynced(_)
GroupsSynced(k) ==
    IF k = 0 THEN <<>>
    ELSE IF steps[k].kind = "planners" THEN Append(GroupsSynced(k - 1), steps[k].of)
    ELSE GroupsSynced(k - 1)

\* The place of a group in the group listing of the run, 0 when it is not there.
PlaceInListing(group) ==
    IF \E i \in 1..Len(groups_data) : groups_data[i].id = group
    THEN CHOOSE i \in 1..Len(groups_data) : groups_data[i].id = group
    ELSE 0

\* C21: in a run of sync_all_data the groups whose plans are synced are groups
\* of the group listing of the run, taken in the order of that listing.
C21_GroupsInListingOrder ==
    entry = "all" =>
        LET synced == GroupsSynced(Len(steps)) IN
        /\ \A i \in 1..Len(synced) : PlaceInListing(synced[i]) > 0
        /\ \A i, j \in 1..Len(synced) :
              i < j => PlaceInListing(synced[i]) < PlaceInListing(synced[j])

(***************************************************************************)
(* Properties of _enrich_task_assignees                                    *)
(***************************************************************************)

\* The requests of the run below the group listing that came back without a
\* result.
NoResultBelowGroups == { r \in no_result : r.kind \in {"planners", "buckets", "tasks"} }

\* The step that has just met a missing listing changed no row, pending or
\* committed, and counted and caught no error.
NoResultStepIsQuiet ==
    /\ session' = session
    /\ committed' = committed
    /\ caught' = caught
    /\ sync_stats'.errors = sync_stats.errors

\* After a missing listing of kind r.kind the run stands at the next sibling:
\* the next group, the task listing of the same planner, the next planner.
NoResultStepGoesOn(r) ==
    /\ r.kind = "planners" => /\ pc' = "group_loop"
                              /\ group_idx' = group_idx + 1
    /\ r.kind = "buckets"  => /\ pc' = "get_tasks"
                              /\ planner_id' = planner_id
                              /\ plan_idx' = plan_idx
    /\ r.kind = "tasks"    => /\ pc' = "planner_loop"
                              /\ plan_idx' = plan_idx + 1
                              /\ group_idx' = group_idx

\* C22: in a run of sync_all_data, a step whose planner, bucket or task
\* listing comes back without a result changes no local row, raises and counts
\* no error and leaves the run at the next sibling; and a run that met such
\* missing listings returns success = TRUE.
C22_NoResultIsNotAFailure ==
    /\ [][ entry = "all" =>
             \A r \in (no_result' \ no_result) :
                 r.kind \in {"planners", "buckets", "tasks"} =>
                     NoResultStepIsQuiet /\ NoResultStepGoesOn(r) ]_vars
    /\ []( (Returned /\ NoResultBelowGroups # {}) => result.success )

\* A run over a store that holds task t1 of planner A met a missing planner
\* listing, a missing bucket listing and a missing task listing, and returned
\* success with t1 still stored.
C22_Witness ==
    /\ Returned
    /\ result.success
    /\ { r.kind : r \in no_result } = {"planners", "buckets", "tasks"}
    /\ [kind |-> "tasks", of |-> "A"] \in no_result
    /\ Has(committed.tasks, "t1")

\* The name and email the remote assignment payload carries for an assignee,
\* with the removed-user marker when it carries neither.
FallbackName(info) ==
    IF info.userDisplayName = "" /\ info.userEmail = "" THEN RemovedUser
    ELSE info.userDisplayName

FallbackEmail(info) == info.userEmail

\* The last entry of the listing was reconciled without raising; its task row.
Enriched == Reconciled /\ ~last.raised

LastTask == session.tasks[LastData.id]

\* C14: when the directory answered 404 to the lookup of an assignee of the
\* reconciled task, that lookup made one HTTP attempt, no error was counted,
\* and the assignment map of the task has an entry for the assignee with the
\* fallback name and email.
C14_AbsentAssigneeTolerated ==
    Enriched =>
        \A k \in 1..Len(lookups) :
            lookups[k].status_code = 404 =>
                LET user_id == lookups[k].azure_id IN
                /\ lookups[k].attempts = 1
                /\ sync_stats.errors = 0
                /\ user_id \in DOMAIN LastTask.assignments
                /\ LastTask.assignments[user_id].userDisplayName
                      = FallbackName(LastData.assignments[user_id])
                /\ LastTask.assignments[user_id].userEmail
                      = FallbackEmail(LastData.assignments[user_id])

\* C15: for every assignee of the reconciled task without User row after the
\* lookup, the entry written carries the name and email of the payload, and
\* the removed-user marker only when the payload carries neither.
C15_FallbackFromPayload ==
    Enriched =>
        \A user_id \in DOMAIN LastData.assignments :
            ~Has(session.users, user_id) =>
                /\ user_id \in DOMAIN LastTask.assignments
                /\ LastTask.assignments[user_id].userDisplayName
                      = FallbackName(LastData.assignments[user_id])
                /\ LastTask.assignments[user_id].userEmail
                      = FallbackEmail(LastData.assignments[user_id])
                /\ (LastTask.assignments[user_id].userDisplayName = RemovedUser
                      => /\ LastData.assignments[user_id].userDisplayName = ""
                         /\ LastData.assignments[user_id].userEmail = "")

\* A field of the entry of an assignee in an assignment map, "" without entry.
FieldOf(assignments, user_id, field) ==
    IF user_id \in DOMAIN assignments THEN assignments[user_id][field] ELSE ""

\* C16: when a task entry is reconciled, a name or email that is not empty in
\* the stored entry of an assignee, or in the payload entry it is rewritten
\* from, is not empty in the entry stored afterwards.
C16_NoBlanking ==
    [][(pc = "task_loop" /\ task_idx' = task_idx + 1) =>
        LET task_data == tasks_data[task_idx]
            before == IF Has(session.tasks, task_data.id)
                      THEN session.tasks[task_data.id].assignments
                      ELSE NoAssignments
            after  == IF Has(session'.tasks, task_data.id)
                      THEN session'.tasks[task_data.id].assignments
                      ELSE NoAssignments
        IN  \A user_id \in DOMAIN after :
            \A field \in {"userDisplayName", "userEmail"} :
                (\/ FieldOf(before, user_id, field) # ""
                 \/ FieldOf(task_data.assignments, user_id, field) # "")
                    => after[user_id][field] # ""]_vars

\* The lookups of get_user_details made by the step being taken, and those of
\* them that returned a payload.
LookupsOfStep == { k \in 1..Len(lookups') : k > Len(lookups) }

AskedInStep(user_id) == \E k \in LookupsOfStep : lookups'[k].azure_id = user_id

AnsweredInStep(user_id) ==
    \E k \in LookupsOfStep : /\ lookups'[k].azure_id = user_id
                              /\ lookups'[k].status_code = 200

\* The User row of an assignee is added by the step being taken.
CreatedInStep(user_id) == Has(session'.users, user_id) /\ ~Has(session.users, user_id)

\* C26: when a task entry is reconciled and enriched, a User row is created for
\* an assignee exactly when the assignee had no row and the lookup returned a
\* payload; the row created is inactive; a lookup that ends on a 404, on a
\* permanent fault or on exhausted retries leaves the assignee without row; an
\* assignee with a row is not looked up.
C26_UserCreatedOnPayloadOnly ==
    [][(pc = "task_loop" /\ task_idx' = task_idx + 1 /\ ~last'.raised) =>
        \A user_id \in UserIds :
            /\ CreatedInStep(user_id)
                  <=> (/\ user_id \in DOMAIN tasks_data[task_idx].assignments
                       /\ ~Has(session.users, user_id)
                       /\ AnsweredInStep(user_id))
            /\ CreatedInStep(user_id) => ~session'.users[user_id].is_active
            /\ (AskedInStep(user_id) /\ ~AnsweredInStep(user_id))
                  => ~Has(session'.users, user_id)
            /\ Has(session.users, user_id) => ~AskedInStep(user_id)
            /\ (user_id \in DOMAIN tasks_data[task_idx].assignments
                   /\ ~Has(session.users, user_id)) => AskedInStep(user_id)]_vars

\* A pass enriched a task assigned to u1 and u2: u1 has the inactive row an
\* earlier pass created and is not looked up, the lookup of u2 ended without
\* payload and u2 has no row.
C26_Witness ==
    /\ Enriched
    /\ DOMAIN LastData.assignments = {"u1", "u2"}
    /\ Has(session.users, "u1")
    /\ ~session.users["u1"].is_active
    /\ ~Has(session.users, "u2")
    /\ Len(lookups) = 1
    /\ lookups[1].azure_id = "u2"
    /\ lookups[1].status_code # 200

\* The lookups of the run that returned a payload, each followed by the
\* creation of a User row (lines 390-408).
CreatedInRun == { k \in 1..Len(lookups) : lookups[k].status_code = 200 }

\* C29: in every state of a run at most one User row was created per external
\* id, the rows created exist, and users_enriched counts them; every step of
\* the run adds as many User rows as it adds to users_enriched and removes
\* none, and a run starts with users_enriched = 0.
C29_UniqueEnrichedUsers ==
    /\ [](\A user_id \in UserIds :
            /\ Cardinality({ k \in CreatedInRun : lookups[k].azure_id = user_id }) <= 1
            /\ (\E k \in CreatedInRun : lookups[k].azure_id = user_id)
                  => Has(session.users, user_id))
    /\ [](sync_stats.users_enriched = Cardinality(CreatedInRun))
    /\ [][IF pc = "idle"
          THEN /\ sync_stats'.users_enriched = 0
               /\ session'.users = session.users
          ELSE /\ DOMAIN session.users \subseteq DOMAIN session'.users
               /\ sync_stats'.users_enriched - sync_stats.users_enriched
                     = Cardinality(DOMAIN session'.users \ DOMAIN session.users)]_vars

\* A pass over a listing of two tasks, both assigned to u1 and u2, none of
\* them stored before the pass, is over: both were looked up for the first
\* task only, two rows were created and users_enriched is 2.
C29_Witness ==
    /\ PassEnds
    /\ Len(tasks_data) = 2
    /\ \A i \in 1..2 : DOMAIN tasks_data[i].assignments = {"u1", "u2"}
    /\ pass_ok = {"t1", "t2"}
    /\ Len(lookups) = 2
    /\ CreatedInRun = {1, 2}
    /\ DOMAIN session.users = {"u1", "u2"}
    /\ sync_stats.users_enriched = 2

\* A run of sync_all_data is under way: it was called and has not returned.
Running == entry = "all" /\ pc # "idle"

Counters ==
    {"total_tasks", "completed_tasks", "in_progress_tasks", "not_started_tasks",
     "overdue_tasks", "blocked_tasks"}

\* Both runs are over.
BothRunsOver == \A r \in RunIds : runs[r].pc = "done"

\* C28: once two runs of sync_planner_tasks on plan A that interleaved their
\* steps are both over, the counters stored for plan A are those a scan of the
\* stored tasks of the plan gives.
C28_CountersAfterConcurrentRuns ==
    BothRunsOver =>
        committed.planners["A"]
            = UpdatePlannerMetrics(committed.planners["A"], "A", committed.tasks)

(***************************************************************************)
(* Properties of _update_planner_metrics                                   *)
(***************************************************************************)

\* The number of tasks a plan owns in one status.
OwnedInStatus(tasks, plan, status) ==
    Cardinality({ id \in OwnedTasks(tasks, plan) : tasks[id].status = status })

\* _update_planner_metrics was the last step: the plan it ran for.
MetricsRan == Len(steps) > 0 /\ steps[Len(steps)].kind = "metrics"

MetricsPlan == session.planners[steps[Len(steps)].of]

\* C17: right after _update_planner_metrics on a plan, total_tasks is the
\* number of tasks the plan owns, and each of the other counters is the number
\* of owned tasks in the status of its name.
C17_CountersMatchStatuses ==
    MetricsRan =>
        LET plan == steps[Len(steps)].of IN
        /\ MetricsPlan.total_tasks = Cardinality(OwnedTasks(session.tasks, plan))
        /\ MetricsPlan.completed_tasks = OwnedInStatus(session.tasks, plan, "COMPLETED")
        /\ MetricsPlan.in_progress_tasks = OwnedInStatus(session.tasks, plan, "IN_PROGRESS")
        /\ MetricsPlan.not_started_tasks = OwnedInStatus(session.tasks, plan, "NOT_STARTED")
        /\ MetricsPlan.overdue_tasks = OwnedInStatus(session.tasks, plan, "OVERDUE")
        /\ MetricsPlan.blocked_tasks = OwnedInStatus(session.tasks, plan, "BLOCKED")

(***************************************************************************)
(* Properties of the fields copied from the payload                        *)
(***************************************************************************)

\* The local priority of a remote priority 0..10, by the thresholds 9, 7, 4.
PriorityByThreshold(p) ==
    CASE p >= 9            -> "URGENT"
      [] p >= 7 /\ p <= 8  -> "HIGH"
      [] p >= 4 /\ p <= 6  -> "MEDIUM"
      [] OTHER             -> "LOW"

\* C23: after a task entry was reconciled, on the create or the update path,
\* the priority of the task is the one the thresholds give for the priority
\* of the payload (0 for an absent one).
C23_PriorityMapping ==
    (Reconciled /\ Has(session.tasks, LastData.id)) =>
        session.tasks[LastData.id].priority = PriorityByThreshold(LastData.priority)

\* C24: after a task entry was reconciled without raising, on the create or
\* the update path, the labels of the task are exactly the categories whose
\* flag is true in the payload, for the empty map too and whatever the labels
\* were before.
C24_LabelsFromCategories ==
    Enriched => LastTask.labels = LabelsOf(LastData.appliedCategories)

\* C25: after a task entry was reconciled without raising, a start, due or
\* completion timestamp that the payload does not carry is unset in the task,
\* whatever the task held before.
C25_AbsentTimestampUnset ==
    Enriched =>
        /\ ~Truthy(LastData.startDateTime) => LastTask.start_date = None
        /\ ~Truthy(LastData.dueDateTime) => LastTask.due_date = None
        /\ ~Truthy(LastData.completedDateTime) => LastTask.completed_date = None

\* C27: after a task entry was reconciled and enriched, the assignees of the
\* stored assignment map are the assignees of the payload; none when the
\* payload has none.
C27_AssigneesTrackPayload ==
    Enriched => DOMAIN LastTask.assignments = DOMAIN LastData.assignments

(***************************************************************************)
(* Part 6.  The remote data the runs are fed, and the specifications       *)
(***************************************************************************)

\* The task listings of the narrow entry point: one entry for one task, over
\* every combination of the fields the status derivation reads.
DerivationPayloads ==
    [ id                : {"t1"},
      title             : {"a", "b"},
      startDateTime     : {None, 1},
      dueDateTime       : {None, 2, Malformed},
      percentComplete   : {0, 50, 100},
      bucketId          : {"b1"},
      completedDateTime : {None, 1},
      priority          : {5},
      assignments       : {NoAssignments},
      appliedCategories : {NoCategories} ]

DerivationListings == {<<>>} \cup {<<task_data>> : task_data \in DerivationPayloads}

SyncTasksNext ==
    \/ Tick
    \/ CallSyncPlannerTasks({"A"})
    \/ GetPlannerTasksNoResult
    \/ GetPlannerTasks(DerivationListings)
    \/ SyncTaskCreate(DirectoryAnswers)
    \/ SyncTaskUpdate(DirectoryAnswers)
    \/ FinishPlannerTasks

\* Runs of sync_planner_tasks on one plan, over every payload of one task.
SpecTasks == Init /\ [][SyncTasksNext]_vars

\* The task listings of a pass with siblings: up to MaxListing entries for two
\* tasks of one plan, among them a completed task, a task whose due timestamp
\* is malformed and a task that lost its due timestamp.
SiblingPayloads ==
    { [ id |-> "t1", title |-> "a", startDateTime |-> None, dueDateTime |-> 2,
        percentComplete |-> 50, bucketId |-> "b1", completedDateTime |-> None,
        priority |-> 5, assignments |-> NoAssignments,
        appliedCategories |-> NoCategories ],
      [ id |-> "t1", title |-> "b", startDateTime |-> 1, dueDateTime |-> Malformed,
        percentComplete |-> 50, bucketId |-> "b1", completedDateTime |-> None,
        priority |-> 5, assignments |-> NoAssignments,
        appliedCategories |-> NoCategories ],
      [ id |-> "t1", title |-> "a", startDateTime |-> None, dueDateTime |-> None,
        percentComplete |-> 100, bucketId |-> "b1", completedDateTime |-> 1,
        priority |-> 9, assignments |-> NoAssignments,
        appliedCategories |-> NoCategories ],
      [ id |-> "t2", title |-> "a", startDateTime |-> None, dueDateTime |-> None,
        percentComplete |-> 0, bucketId |-> NoId, completedDateTime |-> None,
        priority |-> 1, assignments |-> NoAssignments,
        appliedCategories |-> NoCategories ],
      [ id |-> "t2", title |-> "b", startDateTime |-> 1, dueDateTime |-> 2,
        percentComplete |-> 100, bucketId |-> "b1", completedDateTime |-> None,
        priority |-> 7, assignments |-> NoAssignments,
        appliedCategories |-> NoCategories ] }

SiblingListings == SeqsUpTo(SiblingPayloads, MaxListing)

SyncPassNext ==
    \/ Tick
    \/ CallSyncPlannerTasks({"A"})
    \/ GetPlannerTasksNoResult
    \/ GetPlannerTasks(SiblingListings)
    \/ SyncTaskCreate(DirectoryAnswers)
    \/ SyncTaskUpdate(DirectoryAnswers)
    \/ FinishPlannerTasks

\* Runs of sync_planner_tasks on one plan, over listings of two tasks.
SpecPass == Init /\ [][SyncPassNext]_vars

\* The remote data of a group: a listing of distinct plans, in the order A, B,
\* C, each with a well-formed or a malformed createdDateTime; plan A owns
\* task t1, plan B task t2, plan C none; one bucket, or an entry without id.
PlannerPayloads ==
    [ id : PlanIds, title : {"p"}, createdDateTime : {1, Malformed} ]

PlanRank == [ p \in PlanIds |-> IF p = "A" THEN 1 ELSE IF p = "B" THEN 2 ELSE 3 ]

PlannerListings ==
    { value \in SeqsUpTo(PlannerPayloads, Cardinality(PlanIds)) :
        \A i, j \in 1..Len(value) :
            i < j => PlanRank[value[i].id] < PlanRank[value[j].id] }

BucketPayloads == [ id : BucketIds \cup {NoId}, name : {"n"}, orderHint : {"h"} ]

BucketResults ==
    {[ok |-> FALSE, value |-> <<>>]}
    \cup {[ok |-> TRUE, value |-> value] : value \in SeqsUpTo(BucketPayloads, 1)}

TasksOfPlan(plan) ==
    IF plan = "A" THEN {"t1"} ELSE IF plan = "B" THEN {"t2"} ELSE {}

GroupTaskListings(plan) ==
    SeqsUpTo({task_data \in SiblingPayloads : task_data.id \in TasksOfPlan(plan)}, 1)

Next ==
    \/ CallSyncGroupPlanners
    \/ GetPlannersNoResult
    \/ GetPlanners(PlannerListings)
    \/ SyncPlannerUpsert
    \/ SyncPlannerRaises
    \/ FinishGroupPlanners
    \/ SyncPlannerBuckets(BucketResults)
    \/ GetPlannerTasksNoResult
    \/ GetPlannerTasks(GroupTaskListings(planner_id))
    \/ SyncTaskCreate(DirectoryAnswers)
    \/ SyncTaskUpdate(DirectoryAnswers)
    \/ FinishPlannerTasks

\* Runs of sync_group_planners on one group.
Spec == Init /\ [][Next]_vars

\* The remote data of a user with two groups: g1 with the plans A and B, g2
\* with the plan C; B's createdDateTime may be malformed; plan A has the bucket
\* b1 and the task t1, assigned to u1.  Every call returns this data or no
\* result, and the directory answers 200, 404 or 503 throughout.
RemoteGroupIds == {"g1", "g2"}

GroupPayloads == [ id : RemoteGroupIds, displayName : {"G"}, createdDateTime : {1} ]

GroupListings ==
    { value \in [1..2 -> GroupPayloads] : value[1].id = "g1" /\ value[2].id = "g2" }
        \cup { <<>> }

PlansOfGroup(g) == IF g = "g1" THEN <<"A", "B">> ELSE <<"C">>

PlannerListingsOf(g) ==
    { value \in PlannerListings :
        /\ Len(value) = Len(PlansOfGroup(g))
        /\ \A i \in 1..Len(value) :
              /\ value[i].id = PlansOfGroup(g)[i]
              /\ value[i].createdDateTime = Malformed => value[i].id = "B" }

BucketResultsOf(plan) ==
    { buckets_data \in BucketResults :
        \/ ~buckets_data.ok /\ plan = "A"
        \/ /\ buckets_data.ok
           /\ Len(buckets_data.value) = (IF plan = "A" THEN 1 ELSE 0)
           /\ \A i \in 1..Len(buckets_data.value) : buckets_data.value[i].id # NoId }

AssignedPayload ==
    [ id |-> "t1", title |-> "a", startDateTime |-> None, dueDateTime |-> None,
      percentComplete |-> 50, bucketId |-> "b1", completedDateTime |-> None,
      priority |-> 5,
      assignments |-> ("u1" :> [ assignedDateTime |-> "d", orderHint |-> "h",
                                 userDisplayName |-> "", userEmail |-> "" ]),
      appliedCategories |-> NoCategories ]

AllTaskListings(plan) == IF plan = "A" THEN {<<AssignedPayload>>} ELSE {<<>>}

AllDirectoryAnswers ==
    { answer \in DirectoryAnswers :
        /\ answer.user_data.mail # ""
        /\ \A i, j \in 1..Len(answer.script) : answer.script[i] = answer.script[j] }

SyncAllNext ==
    \/ CallSyncAllData
    \/ SyncGroupsNoResult
    \/ SyncGroups(GroupListings)
    \/ SyncNextGroup
    \/ RecordRunActivity
    \/ GetPlannersNoResult
    \/ GetPlanners(PlannerListingsOf(group_id))
    \/ SyncPlannerUpsert
    \/ SyncPlannerRaises
    \/ FinishGroupPlanners
    \/ SyncPlannerBuckets(BucketResultsOf(planner_id))
    \/ GetPlannerTasksNoResult
    \/ GetPlannerTasks(AllTaskListings(planner_id))
    \/ SyncTaskCreate(AllDirectoryAnswers)
    \/ SyncTaskUpdate(AllDirectoryAnswers)
    \/ FinishPlannerTasks

\* Runs of sync_all_data.
SpecAll == Init /\ [][SyncAllNext]_vars

\* The remote data of enrichment: one task of plan A without assignee, with
\* one or with two; the payload of an assignee carries a name and an email or
\* neither; the directory answers as in DirectoryAnswers.
AssignmentPayloads ==
    { [ assignedDateTime |-> "d", orderHint |-> "h",
        userDisplayName |-> "", userEmail |-> "" ],
      [ assignedDateTime |-> "d", orderHint |-> "h",
        userDisplayName |-> "Al", userEmail |-> "al@x" ] }

EnrichPayloads ==
    { [ id |-> "t1", title |-> "a", startDateTime |-> None, dueDateTime |-> None,
        percentComplete |-> 50, bucketId |-> "b1", completedDateTime |-> None,
        priority |-> 5, assignments |-> assignments,
        appliedCategories |-> NoCategories ] :
      assignments \in UNION { [assignees -> AssignmentPayloads] :
                                 assignees \in {{}, {"u1"}, {"u1", "u2"}} } }

EnrichListings == { <<task_data>> : task_data \in EnrichPayloads }

SyncEnrichNext ==
    \/ CallSyncPlannerTasks({"A"})
    \/ GetPlannerTasksNoResult
    \/ GetPlannerTasks(EnrichListings)
    \/ SyncTaskCreate(DirectoryAnswers)
    \/ SyncTaskUpdate(DirectoryAnswers)
    \/ FinishPlannerTasks

\* Runs of sync_planner_tasks on plan A, over listings of one assigned task.
SpecEnrich == Init /\ [][SyncEnrichNext]_vars

\* The remote data of the metrics: group g1 lists plan A, which has bucket b1
\* and the tasks t1 and t2; a listing holds none, the first or both.  Between
\* runs a user sets the status of a stored task through the API.
MetricsPlannerListings == { <<[id |-> "A", title |-> "p", createdDateTime |-> 1]>> }

MetricsBucketResults ==
    { [ok |-> TRUE, value |-> <<[id |-> "b1", name |-> "n", orderHint |-> "h"]>>] }

MetricsPayload(id, percent) ==
    [ id |-> id, title |-> "a", startDateTime |-> None, dueDateTime |-> None,
      percentComplete |-> percent, bucketId |-> "b1", completedDateTime |-> None,
      priority |-> 5, assignments |-> NoAssignments,
        appliedCategories |-> NoCategories ]

MetricsListings ==
    { <<>>, <<MetricsPayload("t1", 50)>>,
      <<MetricsPayload("t1", 50), MetricsPayload("t2", 0)>> }

SyncMetricsNext ==
    \/ CallSyncGroupPlanners
    \/ GetPlanners(MetricsPlannerListings)
    \/ SyncPlannerUpsert
    \/ FinishGroupPlanners
    \/ SyncPlannerBuckets(MetricsBucketResults)
    \/ GetPlannerTasks(MetricsListings)
    \/ SyncTaskCreate(DirectoryAnswers)
    \/ SyncTaskUpdate(DirectoryAnswers)
    \/ FinishPlannerTasks
    \/ update_task_status(TaskStatus)

\* Runs of sync_group_planners on a group of one plan, with status changes
\* made through the API between the runs.
SpecMetrics == Init /\ [][SyncMetricsNext]_vars

\* The remote data of the priority mapping: task t1 of plan A with every
\* priority 0..10 (0 also for a payload without priority), with or without a
\* due timestamp.
PriorityPayloads ==
    [ id                : {"t1"},
      title             : {"a"},
      startDateTime     : {None},
      dueDateTime       : {None, 2},
      percentComplete   : {0},
      bucketId          : {"b1"},
      completedDateTime : {None},
      priority          : 0..10,
      assignments       : {NoAssignments},
      appliedCategories : {NoCategories} ]

PriorityListings == { <<task_data>> : task_data \in PriorityPayloads }

SyncPriorityNext ==
    \/ CallSyncPlannerTasks({"A"})
    \/ GetPlannerTasks(PriorityListings)
    \/ SyncTaskCreate(DirectoryAnswers)
    \/ SyncTaskUpdate(DirectoryAnswers)
    \/ FinishPlannerTasks

\* Runs of sync_planner_tasks on plan A, over every priority of one task.
SpecPriority == Init /\ [][SyncPriorityNext]_vars

\* The remote data of the copied fields: task t1 of plan A with or without
\* each timestamp, without categories, with one true flag or with flags all
\* false, and without assignee or with u1.
CategoryMaps ==
    { NoCategories,
      ("category1" :> TRUE @@ "category2" :> FALSE),
      ("category1" :> FALSE @@ "category2" :> FALSE) }

FieldPayloads ==
    [ id                : {"t1"},
      title             : {"a"},
      startDateTime     : {None, 1},
      dueDateTime       : {None, 2},
      percentComplete   : {0},
      bucketId          : {"b1"},
      completedDateTime : {None, 1},
      priority          : {5},
      assignments       : { NoAssignments,
                            "u1" :> [ assignedDateTime |-> "d", orderHint |-> "h",
                                      userDisplayName |-> "", userEmail |-> "" ] },
      appliedCategories : CategoryMaps ]

FieldListings == { <<task_data>> : task_data \in FieldPayloads }

SyncFieldsNext ==
    \/ CallSyncPlannerTasks({"A"})
    \/ GetPlannerTasks(FieldListings)
    \/ SyncTaskCreate(AllDirectoryAnswers)
    \/ SyncTaskUpdate(AllDirectoryAnswers)
    \/ FinishPlannerTasks

\* Runs of sync_planner_tasks on plan A, over the fields of one task.
SpecFields == Init /\ [][SyncFieldsNext]_vars

\* The remote data of the shared assignees: plan A lists t1, or t1 and t2, each
\* assigned to u1 or to u1 and u2.
SharedPayloads ==
    { [ id |-> id, title |-> "a", startDateTime |-> None, dueDateTime |-> None,
        percentComplete |-> 50, bucketId |-> "b1", completedDateTime |-> None,
        priority |-> 5, assignments |-> assignments,
        appliedCategories |-> NoCategories ] :
      id \in {"t1", "t2"},
      assignments \in UNION { [assignees -> { [ assignedDateTime |-> "d", orderHint |-> "h",
                                                userDisplayName |-> "Al",
                                                userEmail |-> "al@x" ] }] :
                                 assignees \in {{"u1"}, {"u1", "u2"}} } }

SharedListings ==
    { value \in SeqsUpTo(SharedPayloads, 2) :
        /\ Len(value) >= 1
        /\ \A i \in 1..Len(value) : value[i].id = (IF i = 1 THEN "t1" ELSE "t2") }

SyncSharedNext ==
    \/ CallSyncPlannerTasks({"A"})
    \/ GetPlannerTasksNoResult
    \/ GetPlannerTasks(SharedListings)
    \/ SyncTaskCreate(DirectoryAnswers)
    \/ SyncTaskUpdate(DirectoryAnswers)
    \/ FinishPlannerTasks

\* Runs of sync_planner_tasks on plan A, over listings whose tasks share
\* assignees.
SpecShared == Init /\ [][SyncSharedNext]_vars

\* The remote data of a run in which every level may fail: the listing of the
\* groups is missing, empty or holds g1, with a well-formed or a malformed
\* createdDateTime; g1 lists plan A, well-formed or malformed; the buckets of A
\* are missing, none, b1 or an entry without id; the tasks of A are missing,
\* none or t1, without due date, with one or with a malformed one.
RunGroupListings ==
    { <<>> } \cup { <<group_data>> : group_data \in [ id : {"g1"}, displayName : {"G"},
                                                      createdDateTime : {1, Malformed} ] }

RunPlannerListings ==
    { <<planner_data>> :
        planner_data \in [ id : {"A"}, title : {"p"}, createdDateTime : {1, Malformed} ] }

RunTaskListings ==
    { <<>> } \cup { <<[AssignedPayload EXCEPT !.dueDateTime = due]>> :
                       due \in {None, 2, Malformed} }

SyncRunNext ==
    \/ CallSyncAllData
    \/ SyncGroupsNoResult
    \/ SyncGroups(RunGroupListings)
    \/ SyncNextGroup
    \/ RecordRunActivity
    \/ GetPlannersNoResult
    \/ GetPlanners(RunPlannerListings)
    \/ SyncPlannerUpsert
    \/ SyncPlannerRaises
    \/ FinishGroupPlanners
    \/ SyncPlannerBuckets(BucketResults)
    \/ GetPlannerTasksNoResult
    \/ GetPlannerTasks(RunTaskListings)
    \/ SyncTaskCreate(AllDirectoryAnswers)
    \/ SyncTaskUpdate(AllDirectoryAnswers)
    \/ FinishPlannerTasks

\* The steps of a run that was called: the interpreter goes on executing the
\* method until it returns.
RunStep == pc # "idle" /\ SyncRunNext

\* Runs of sync_all_data over remote data that fail at every level; a run
\* that was called keeps taking steps.
SpecRun == Init /\ [][SyncRunNext]_vars /\ WF_vars(RunStep)

\* The store after sync_group_planners('g1') listed plan A with the tasks t1
\* and t2, both at 0 percent: the rows are committed and the counters of A
\* were computed from them.
StoredTasks ==
    Expire([ id \in {"t1", "t2"} |-> CreateTaskFromData(MetricsPayload(id, 0), "A", 1) ])

StoredStore ==
    LET planners == UpsertPlanner(EmptyTable, [id |-> "A", title |-> "p",
                                               createdDateTime |-> 1], "g1", 1)
    IN  [ EmptyStore EXCEPT
            !.tasks    = StoredTasks,
            !.planners = Put(planners, "A",
                             UpdatePlannerMetrics(planners["A"], "A", StoredTasks)) ]

InitStored ==
    /\ gw_pc = "idle"
    /\ retry_count = 0
    /\ attempts = 0
    /\ waits = <<>>
    /\ responses = <<>>
    /\ gw_result = ""
    /\ now = 1
    /\ session = StoredStore
    /\ committed = StoredStore
    /\ sync_stats = NewStats
    /\ pc = "idle"
    /\ entry = "none"
    /\ planners_data = <<>>
    /\ plan_idx = 0
    /\ group_id = NoId
    /\ planner_id = NoId
    /\ tasks_data = <<>>
    /\ task_idx = 0
    /\ last = NoLast
    /\ pass_raised = {}
    /\ pass_ok = {}
    /\ prev_pass = NoPass
    /\ repeat = FALSE
    /\ caught = 0
    /\ fetched = <<>>
    /\ plans_raised = {}
    /\ result = NoResult
    /\ active_groups = <<>>
    /\ groups_data = <<>>
    /\ no_result = {}
    /\ group_idx = 0
    /\ lookups = <<>>
    /\ steps = <<>>
    /\ runs = [ r \in RunIds |-> NewRun ]

\* The listings the two runs may receive for plan A: the remote tasks change
\* between the two requests.  No task has assignees, so _enrich_task_assignees
\* writes nothing, and none has a due date.
ConcurrentListings ==
    { <<MetricsPayload("t1", 0)>>, <<MetricsPayload("t1", 50)>>,
      <<MetricsPayload("t2", 100)>>,
      <<MetricsPayload("t1", 50), MetricsPayload("t2", 100)>> }

\* Lines 143-148 in run r: get_planner_tasks returns a listing.
RunGetPlannerTasks(r) ==
    /\ runs[r].pc = "start"
    /\ \E value \in ConcurrentListings :
          runs' = [runs EXCEPT ![r].tasks_data = value, ![r].task_idx = 1,
                               ![r].pc = "task_loop"]
    /\ UNCHANGED <<sync_vars_but_runs, gw_vars>>

\* Lines 148-165 in run r: Task.query.get gives the row of the identity map of
\* the session, or reads it from the database as it is committed now; the row
\* is updated from the payload, or created when there is none.
RunSyncTask(r) ==
    /\ runs[r].pc = "task_loop"
    /\ runs[r].task_idx <= Len(runs[r].tasks_data)
    /\ LET task_data == runs[r].tasks_data[runs[r].task_idx]
           id        == task_data.id
           known     == Has(runs[r].loaded, id)
           stored    == Has(committed.tasks, id)
           task      == IF known THEN runs[r].loaded[id] ELSE committed.tasks[id]
           written   == IF known \/ stored
                        THEN UpdateTaskFromData(task, task_data, now).task
                        ELSE CreateTaskFromData(task_data, "A", now)
       IN  runs' = [runs EXCEPT
                      ![r].loaded  = Put(@, id, written),
                      ![r].as_read = IF ~known /\ stored THEN Put(@, id, task) ELSE @,
                      ![r].task_idx = @ + 1]
    /\ UNCHANGED <<sync_vars_but_runs, gw_vars>>

\* Lines 167-170 in run r: Planner.query.get reads the Planner row, and the
\* scan of _update_planner_metrics gives the rows of the plan as they are
\* committed now, those of the identity map of the session as the session
\* holds them.
RunUpdatePlannerMetrics(r) ==
    /\ runs[r].pc = "task_loop"
    /\ runs[r].task_idx > Len(runs[r].tasks_data)
    /\ LET seen == runs[r].loaded @@ committed.tasks IN
       runs' = [runs EXCEPT
                  ![r].planner_as_read = committed.planners["A"],
                  ![r].planner = UpdatePlannerMetrics(committed.planners["A"], "A", seen),
                  ![r].pc = "commit"]
    /\ UNCHANGED <<sync_vars_but_runs, gw_vars>>

\* Line 172 in run r: db.session.commit() writes the rows of the session that
\* differ from what was read, and of the Planner row the columns that differ.
RunCommit(r) ==
    /\ runs[r].pc = "commit"
    /\ LET dirty == { id \in DOMAIN runs[r].loaded :
                        ~Has(runs[r].as_read, id)
                        \/ runs[r].loaded[id] # runs[r].as_read[id] }
           tasks == [ id \in DOMAIN committed.tasks \cup dirty |->
                        IF id \in dirty THEN runs[r].loaded[id] ELSE committed.tasks[id] ]
           planner == [ column \in DOMAIN committed.planners["A"] |->
                          IF column \in Counters
                             /\ runs[r].planner[column] # runs[r].planner_as_read[column]
                          THEN runs[r].planner[column]
                          ELSE committed.planners["A"][column] ]
       IN  committed' = [committed EXCEPT !.tasks = Expire(tasks),
                                          !.planners = Put(@, "A", planner)]
    /\ runs' = [runs EXCEPT ![r].pc = "done"]
    /\ UNCHANGED <<now, session, sync_stats, pc, entry, planners_data, plan_idx,
                   group_id, planner_id, tasks_data, task_idx, last, pass_raised,
                   pass_ok, prev_pass, repeat, caught, fetched, plans_raised>>
    /\ UNCHANGED all_vars
    /\ UNCHANGED gw_vars

ConcurrentNext ==
    \E r \in RunIds :
        \/ RunGetPlannerTasks(r)
        \/ RunSyncTask(r)
        \/ RunUpdatePlannerMetrics(r)
        \/ RunCommit(r)

\* Two runs of sync_planner_tasks on plan A at once, over a store that holds
\* the plan and its tasks.
SpecConcurrent == InitStored /\ [][ConcurrentNext]_vars

GwNext ==
    \/ MakeRequest
    \/ RequestSucceeds
    \/ RequestRetries
    \/ RequestGivesUp

\* Calls of make_request, over every sequence of outcomes of the exchanges.
SpecGateway == Init /\ [][GwNext]_vars

====
